---- MODULE Spec2Model ----
(***************************************************************************)
(* pycont: Tricontinent syringe pump control.                              *)
(*                                                                         *)
(* Part 1  wire protocol tables (pump_protocol.py, dtprotocol.py)          *)
(* Part 2  PumpController retry wrapper and is_idle (controller/base.py),  *)
(*         run against a transport stub: specification SpecCtl             *)
(* Part 3  SerialIO and SocketIO transports (io.py) with several calling   *)
(*         threads and the devices on the line: specifications SpecIO and  *)
(*         FairSpecIO                                                      *)
(***************************************************************************)
EXTENDS Integers, Sequences, FiniteSets, TLC

\* ------------------------------------------------------------------------
\* Part 1: protocol tables
\* ------------------------------------------------------------------------

None == "None"

\* dtprotocol.py: frame delimiters. The carriage return is written "CR".
DTStart == "/"
DTStop == "CR"

\* dtprotocol.py Address: the 16 switch addresses, master and broadcast.
AddressValues ==
    {"1", "2", "3", "4", "5", "6", "7", "8", "9", ":", ";", "<", "=", ">",
     "?", "@", "0", "_"}

AddressMaster == "0"

\* the grave accent character (0x60), which a TLA+ string cannot hold
Grave == "GRAVE"

\* pump_protocol.py StatusCode: kind |-> <<idle character, busy character>>.
StatusCode ==
    [Ok |-> <<Grave, "@">>,
     InitFailure |-> <<"a", "A">>,
     InvalidCommand |-> <<"b", "B">>,
     InvalidOperand |-> <<"c", "C">>,
     EEPROMFailure |-> <<"f", "F">>,
     NotInitialized |-> <<"g", "G">>,
     PlungerOverload |-> <<"i", "I">>,
     ValveOverload |-> <<"j", "J">>,
     PlungerStuck |-> <<"k", "K">>]

StatusKinds == DOMAIN StatusCode

\* StatusCode.is_error
StatusCode_is_error(code) == code # "Ok"

\* _STATUS_DECODE: raw character |-> PumpStatus(busy, code); zip((False,
\* True), status_code.value) makes the first character idle, the second busy.
STATUS_DECODE_keys == {StatusCode[k][i] : k \in StatusKinds, i \in {1, 2}}

\* the None that PumpStatus.try_decode returns, in the shape of a PumpStatus
NoPumpStatus == [code |-> None, busy |-> FALSE]

\* ... as it would be with zip((True, False), status_code.value)
PumpStatus_try_decode_BusyFirst(raw_code) ==
    IF raw_code \in STATUS_DECODE_keys
    THEN LET k == CHOOSE kk \in StatusKinds :
                      raw_code \in {StatusCode[kk][1], StatusCode[kk][2]}
         IN [code |-> k, busy |-> raw_code = StatusCode[k][1]]
    ELSE NoPumpStatus

\* PumpStatus.try_decode: dict.get, None for a character not in the table.
PumpStatus_try_decode(raw_code) ==
    IF raw_code \in STATUS_DECODE_keys
    THEN LET k == CHOOSE kk \in StatusKinds :
                      raw_code \in {StatusCode[kk][1], StatusCode[kk][2]}
         IN [code |-> k, busy |-> raw_code = StatusCode[k][2]]
    ELSE NoPumpStatus

\* ------------------------------------------------------------------------
\* Part 2: PumpController._write_and_read_from_pump and is_idle
\* ------------------------------------------------------------------------

\* controller/base.py:34
MAX_REPEAT_WRITE_AND_READ == 10

\* largest max_repeat given to a direct _write_and_read_from_pump call
MaxRepeatArg == 3

\* a status character outside the table, as a stand-in for all of them
UnknownStatusChar == "z"

StubStatusChars == STATUS_DECODE_keys \cup {UnknownStatusChar}

PumpName == "pump1"

VARIABLES
    cpc,        \* controller position: idle, war_loop, war_ret, done
    cop,        \* running operation: [op, max_repeat]
    retry,      \* loop index of: for retry in range(max_repeat)
    nSent,      \* send_packet_and_read_response calls made by the operation
    nTimeout,   \* ... of which raised PumpIOTimeOutError
    nDecode,    \* ... of which raised DTStatusDecodeError
    resp,       \* the DTStatus returned by the transport, or None
    outcome     \* how the operation ended: [kind, ...]

ctlVars == <<cpc, cop, retry, nSent, nTimeout, nDecode, resp, outcome>>

\* the state of the transport of Part 3
VARIABLES
    ioType,     \* which transport is under test: serial or socket
    lock,       \* PumpIO._lock: 0 when free, else the holding thread
    pc,         \* per thread: idle, lock, flush, write, poll, sp_lock, sp_write
    call,       \* per thread: the running call and its bookkeeping
    ret,        \* per thread: how its last call ended
    owed,       \* replies the pumps have still to send
    inbuf,      \* SerialIO: the serial input buffer, a sequence of lines
    wire,       \* SocketIO: bytes on their way from the bridge to the host
    sockq,      \* SocketIO: the socket receive queue
    sbuf,       \* SocketIO._buf
    eof,        \* SocketIO: the remote end has closed the connection
    spin,       \* SocketIO: parity of the recv() calls that returned b''
    callsLeft,  \* calls still to be made
    noiseLeft   \* noise frames still to arrive

ioVars == <<ioType, lock, pc, call, ret, owed, inbuf, wire, sockq, sbuf, eof,
            spin, callsLeft, noiseLeft>>

\* the state of the response decoder of Part 4
VARIABLES
    frame,      \* the response bytes handed to DTStatus
    dtpc,       \* decoder position: bytes, decoded, checked
    decoded,    \* the DTStatus built from the bytes, or the exception
    pstatus,    \* PumpStatus.try_decode of the status character
    idle        \* what is_idle makes of the decoded status

dtVars == <<frame, dtpc, decoded, pstatus, idle>>

\* the state of the volume operations of Part 5 and of their pump
VARIABLES
    plunger,    \* device: the plunger position, in steps
    target,     \* device: where the move in progress ends (plunger if none)
    dvalve,     \* device: the valve position
    dvelocity,  \* device: the top velocity
    pop,        \* the running pump, deliver, go_to_volume or
                \* set_valve_position call and its arguments
    ppc,        \* its position: idle, check, velocity, valve, valve_wait,
                \* move, wait, done
    seen,       \* the plunger position its feasibility check has read
    sent,       \* the packets it has sent, with the device state they met
    result,     \* its return value
    xfer,       \* the running transfer: its locals and its strokes so far
    opsLeft     \* calls still to be made

pumpVars == <<plunger, target, dvalve, dvelocity, pop, ppc, seen, sent,
              result, xfer, opsLeft>>

\* the state of the settings and of initialize of Part 6 and of their pump
VARIABLES
    cfg_total_volume,       \* PumpController.total_volume, in 1e-3 mL
    micro_step_mode,        \* PumpController.micro_step_mode
    default_top_velocity,   \* PumpController._default_top_velocity
    dev_valve,      \* device: the valve position, as it is reported
    dev_velocity,   \* device: the top velocity
    dev_initialized,\* device: what it answers to the initialized query
    dev_busy,       \* device: a command is being carried out
    dev_error,      \* device: the error of its status, or None
    faults,         \* failures the pump and the line may still show
    sname,          \* the running call: its name, or None
    sarg,           \* ... its valve_position argument
    svel,           \* ... its top_velocity or micro_step_mode argument
    smax,           \* ... max_repeat of the running set-and-verify loop
    ssecure,        \* ... secure
    imax,           \* ... max_repeat of initialize
    spc,            \* its position
    sretry,         \* loop index of the set-and-verify loop
    iattempt,       \* loop index of initialize
    slog,           \* the packets it has handed to _write_and_read_from_pump
    sresult,        \* its return value or the exception it raised
    setupLeft       \* calls still to be made

heldVars == <<cfg_total_volume, micro_step_mode, default_top_velocity>>
devVars == <<dev_valve, dev_velocity, dev_initialized, dev_busy, dev_error>>
frameVars == <<sname, sarg, svel, smax, ssecure, imax>>
setupVars == <<heldVars, devVars, faults, frameVars, spc, sretry, iattempt,
               slog, sresult, setupLeft>>

\* the state of the pumps of Part 7 and of the MultiPumpController call
VARIABLES
    m_initialized,  \* device: what each pump answers to the initialized query
    m_busy,         \* device: the pump is carrying out a command
    m_valve,        \* device: its valve position, as it is reported
    m_plunger,      \* device: its plunger position, in steps
    m_target,       \* device: where its plunger is at the end of the command
    m_moved,        \* device: the steps of the pickups it has taken
    mname,          \* the running call: its name, or None
    msecure,        \* ... secure
    mwait,          \* ... wait
    mwait_call,     \* ... wait of the outermost call
    mrequested,     \* ... pumps_and_volumes_dict of the outermost call
    mstart_init,    \* what the pumps answered is_initialized at the call
    mstart_plunger, \* where the plungers were, or were going, at the call
    mpc,            \* its position
    mqueue,         \* the pumps the running loop has still to go over
    mkeys,          \* the pump names of pumps_and_volumes_dict, in order
    mdict,          \* pumps_and_volumes_dict of the running round
    volume_to_transfer, \* the local of parallel_transfer
    mremaining,     \* remaining_volume, the local of parallel_transfer
    mrounds,        \* the depth of the recursion of parallel_transfer
    mlog,           \* what the controller has done to the pumps, in order
    mresult,        \* its return value
    multiLeft       \* calls still to be made

mdevVars == <<m_initialized, m_busy, m_valve, m_plunger, m_target, m_moved>>
mcallVars == <<mname, msecure, mwait, mwait_call, mrequested, mstart_init,
               mstart_plunger>>
multiVars == <<mdevVars, mcallVars, mpc, mqueue, mkeys, mdict,
               volume_to_transfer, mremaining, mrounds, mlog, mresult,
               multiLeft>>

\* the conversions between volumes and steps: the pump's number_of_steps and
\* total_volume, the volume converted, the steps it gave, the volume the
\* steps gave back (a fraction of units), the position of the round trip
VARIABLES
    cv_number_of_steps, cv_total_volume, cv_volume, cv_step, cv_back, cvpc

convVars == <<cv_number_of_steps, cv_total_volume, cv_volume, cv_step,
              cv_back, cvpc>>

\* forging a packet: the forge function called and the address of its
\* protocol, the commands and the execute flag it hands to forge_packet, the
\* packet, the bytes of the packet, the exception of a call that built no
\* packet, the position of the call
VARIABLES
    fg_name, fg_address, fg_given, fg_execute, fg_packet, fg_bytes, fg_raised,
    fgpc

forgeVars == <<fg_name, fg_address, fg_given, fg_execute, fg_packet, fg_bytes,
               fg_raised, fgpc>>

\* the frames of a socket: the bytes the remote end sends in all, those not
\* yet received, SocketIO._buf, the frames extracted so far, how the last
\* _recv_status ended, the number of chunks received
VARIABLES
    fr_all, fr_rest, fr_buf, fr_out, fr_last, fr_chunks

frameExtractVars == <<fr_all, fr_rest, fr_buf, fr_out, fr_last, fr_chunks>>

\* get_valve_position: its max_repeat, the queries made (calls of
\* get_raw_valve_position), the raw positions they returned, how the call
\* ended ("return" or "raise") and with what, its position
VARIABLES
    gv_max_repeat, gv_queries, gv_replies, gv_kind, gv_result, gvpc

getValveVars == <<gv_max_repeat, gv_queries, gv_replies, gv_kind, gv_result,
                  gvpc>>

fnVars == <<convVars, forgeVars, frameExtractVars, getValveVars>>

vars == <<ctlVars, ioVars, dtVars, pumpVars, setupVars, multiVars, fnVars>>

\* what the actions of one part leave alone
notCtlVars == <<ioVars, dtVars, pumpVars, setupVars, multiVars,
                fnVars>>
notIOVars == <<ctlVars, dtVars, pumpVars, setupVars, multiVars,
               fnVars>>
notDTVars == <<ctlVars, ioVars, pumpVars, setupVars, multiVars,
               fnVars>>
notPumpVars == <<ctlVars, ioVars, dtVars, setupVars, multiVars,
                 fnVars>>
notSetupVars == <<ctlVars, ioVars, dtVars, pumpVars, multiVars,
                  fnVars>>
notMultiVars == <<ctlVars, ioVars, dtVars, pumpVars, setupVars,
                  fnVars>>
notFnVars == <<ctlVars, ioVars, dtVars, pumpVars, setupVars, multiVars>>

NoOp == [op |-> None, max_repeat |-> 0]
NoStatus == [address |-> None, status |-> None]
NoOutcome == [kind |-> None]

CtlInit ==
    /\ cpc = "idle"
    /\ cop = NoOp
    /\ retry = 0
    /\ nSent = 0
    /\ nTimeout = 0
    /\ nDecode = 0
    /\ resp = NoStatus
    /\ outcome = NoOutcome

\* for retry in range(max_repeat): the loop body runs for retry < max_repeat
RangeHasNext_OffByOne(i, n) == i <= n

RangeHasNext(i, n) == i < n

CtlBegin(op, max_repeat) ==
    /\ cpc = "idle"
    /\ cpc' = "war_loop"
    /\ cop' = [op |-> op, max_repeat |-> max_repeat]
    /\ retry' = 0
    /\ nSent' = 0
    /\ nTimeout' = 0
    /\ nDecode' = 0
    /\ resp' = NoStatus
    /\ outcome' = NoOutcome
    /\ UNCHANGED notCtlVars

\* a caller invokes _write_and_read_from_pump(packet, max_repeat)
CallWriteAndRead ==
    \E n \in 1..MaxRepeatArg : CtlBegin("write_and_read_from_pump", n)

\* a caller invokes is_idle(): the report-status packet goes through
\* _write_and_read_from_pump with the default max_repeat
CallIsIdle == CtlBegin("is_idle", MAX_REPEAT_WRITE_AND_READ)

\* one loop iteration whose send_packet_and_read_response raises
\* PumpIOTimeOutError: logged, time.sleep(0.2), next iteration
WarAttemptTimeout ==
    /\ cpc = "war_loop"
    /\ RangeHasNext(retry, cop.max_repeat)
    /\ nSent' = nSent + 1
    /\ nTimeout' = nTimeout + 1
    /\ retry' = retry + 1
    /\ UNCHANGED <<cpc, cop, nDecode, resp, outcome>>
    /\ UNCHANGED notCtlVars

\* ... as it would be if the except clause named PumpIOTimeOutError only:
\* the DTStatusDecodeError leaves the loop and the call
WarAttemptDecodeError_NotCaught ==
    /\ cpc = "war_loop"
    /\ RangeHasNext(retry, cop.max_repeat)
    /\ nSent' = nSent + 1
    /\ nDecode' = nDecode + 1
    /\ outcome' = [kind |-> "raise", exc |-> "DTStatusDecodeError"]
    /\ cpc' = "done"
    /\ UNCHANGED <<cop, retry, nTimeout, resp>>
    /\ UNCHANGED notCtlVars

\* one loop iteration whose send_packet_and_read_response raises
\* DTStatusDecodeError: logged, time.sleep(0.2), next iteration
WarAttemptDecodeError ==
    /\ cpc = "war_loop"
    /\ RangeHasNext(retry, cop.max_repeat)
    /\ nSent' = nSent + 1
    /\ nDecode' = nDecode + 1
    /\ retry' = retry + 1
    /\ UNCHANGED <<cpc, cop, nTimeout, resp, outcome>>
    /\ UNCHANGED notCtlVars

\* one loop iteration whose send_packet_and_read_response returns a status
WarAttemptReply ==
    /\ cpc = "war_loop"
    /\ RangeHasNext(retry, cop.max_repeat)
    /\ \E s \in StubStatusChars :
          resp' = [address |-> AddressMaster, status |-> s]
    /\ nSent' = nSent + 1
    /\ cpc' = "war_ret"
    /\ UNCHANGED <<cop, retry, nTimeout, nDecode, outcome>>
    /\ UNCHANGED notCtlVars

\* the loop ran out: raise MaxRetriesExceededError
WarExhausted ==
    /\ cpc = "war_loop"
    /\ ~RangeHasNext(retry, cop.max_repeat)
    /\ outcome' = [kind |-> "raise", exc |-> "MaxRetriesExceededError"]
    /\ cpc' = "done"
    /\ UNCHANGED <<cop, retry, nSent, nTimeout, nDecode, resp>>
    /\ UNCHANGED notCtlVars

\* _write_and_read_from_pump called directly returns the status
WarReturn ==
    /\ cpc = "war_ret"
    /\ cop.op = "write_and_read_from_pump"
    /\ outcome' = [kind |-> "return", value |-> resp]
    /\ cpc' = "done"
    /\ UNCHANGED <<cop, retry, nSent, nTimeout, nDecode, resp>>
    /\ UNCHANGED notCtlVars

\* is_idle after _write_and_read_from_pump returned response
IsIdleResult_IgnoresError(response) ==
    LET status == PumpStatus_try_decode(response.status)
    IN IF status = NoPumpStatus
       THEN [kind |-> "raise", exc |-> "ValueError"]
       ELSE [kind |-> "return", value |-> ~status.busy]

IsIdleResult(response) ==
    LET status == PumpStatus_try_decode(response.status)
    IN IF status = NoPumpStatus
       THEN [kind |-> "raise", exc |-> "ValueError"]
       ELSE IF StatusCode_is_error(status.code)
       THEN [kind |-> "raise", exc |-> "PumpHardwareError",
             status_code |-> status.code, pump_name |-> PumpName]
       ELSE [kind |-> "return", value |-> ~status.busy]

IsIdleDecode ==
    /\ cpc = "war_ret"
    /\ cop.op = "is_idle"
    /\ outcome' = IsIdleResult(resp)
    /\ cpc' = "done"
    /\ UNCHANGED <<cop, retry, nSent, nTimeout, nDecode, resp>>
    /\ UNCHANGED notCtlVars

\* the caller takes the result; the controller is ready for the next call
CtlFinish ==
    /\ cpc = "done"
    /\ cpc' = "idle"
    /\ UNCHANGED <<cop, retry, nSent, nTimeout, nDecode, resp, outcome>>
    /\ UNCHANGED notCtlVars

CtlNext ==
    \/ CallWriteAndRead
    \/ CallIsIdle
    \/ WarAttemptTimeout
    \/ WarAttemptDecodeError
    \/ WarAttemptReply
    \/ WarExhausted
    \/ WarReturn
    \/ IsIdleDecode
    \/ CtlFinish

\* ------------------------------------------------------------------------
\* Part 3: the transports of io.py, their callers and the devices
\* ------------------------------------------------------------------------

\* number of threads calling into the one transport
NumThreads == 2

\* calls (send_packet or send_packet_and_read_response) made in one run
MaxCalls == 2

\* the configured timeout, in poll intervals of time.sleep(0.2)
TimeoutPolls == 2

\* frames that reach the host without being the reply to one of its packets
MaxNoise == 1

\* SocketIO: the bridge forwards a frame whole, or its first ChunkLen bytes
\* and then the rest
ChunkLen == 2

Threads == 1..NumThreads

\* the bus addresses of the two pumps on the line: Address.Switch0, Switch1
PumpAddrs == {"1", "2"}

\* characters: "ETX" is 0x03, "LF" the line feed, "FF" a byte that is not
\* valid UTF-8
Whitespace == {"CR", "LF", " "}

\* the reply of a pump: start, master address, idle Ok status, stop
ReplyBytes == <<DTStart, AddressMaster, Grave, DTStop>>

\* other frames seen on the line: a frame for another bus address, a frame
\* whose address character is no Address value, a master frame with a byte
\* that is not UTF-8, and a frame cut short after the start delimiter
NoiseFrames ==
    {<<DTStart, "2", Grave, DTStop>>,
     <<DTStart, "x", Grave, DTStop>>,
     <<DTStart, AddressMaster, "FF", DTStop>>,
     <<DTStart, DTStop>>}

RECURSIVE Rstrip(_, _)
\* str.rstrip(chars)
Rstrip(str, chars) ==
    IF str # <<>> /\ str[Len(str)] \in chars
    THEN Rstrip(SubSeq(str, 1, Len(str) - 1), chars)
    ELSE str

RECURSIVE Lstrip(_, _)
\* str.lstrip(chars)
Lstrip(str, chars) ==
    IF str # <<>> /\ str[1] \in chars
    THEN Lstrip(Tail(str), chars)
    ELSE str

NoDTStatus == [address |-> None, status |-> None, err |-> None, data |-> <<>>]

\* DTStatus._extract_response_parts on the decoded text
ExtractResponseParts(response) ==
    LET info == Lstrip(Rstrip(Rstrip(response, Whitespace), {"ETX"}), {DTStart})
    IN IF info = <<>>
       THEN [NoDTStatus EXCEPT !.err = "IndexError"]
       ELSE LET address == IF info[1] \in AddressValues THEN info[1] ELSE None
            IN IF address = AddressMaster
               THEN IF Len(info) < 2
                    THEN [NoDTStatus EXCEPT !.err = "IndexError"]
                    ELSE [address |-> address, status |-> info[2],
                          err |-> None, data |-> SubSeq(info, 3, Len(info))]
               ELSE [NoDTStatus EXCEPT !.address = address]

\* DTStatus.__init__: bytes.decode() then _extract_response_parts
DTStatus(response) ==
    IF \E i \in 1..Len(response) : response[i] = "FF"
    THEN [NoDTStatus EXCEPT !.err = "DTStatusDecodeError"]
    ELSE ExtractResponseParts(response)

\* the address of a frame that was read and passed over, as the call records
\* it: the address character, or "invalid" when it is no Address value
SkippedAs(st) == IF st.address = None THEN "invalid" ELSE st.address

\* Every line and byte that reaches the host carries, besides its content,
\* where it came from (src: the pump, via: the kind of call it answers) and
\* three marks of when it came: old (it was buffered when a flush completed),
\* stale (it was buffered when a packet was sent) and left (it was buffered
\* when a call ended with an exception).

NoCall ==
    [target |-> None, op |-> None, elapsed |-> 0, dropped |-> FALSE,
     droppedLeft |-> FALSE, skipped |-> None]

NoRet ==
    [target |-> None, address |-> None, status |-> None, kind |-> None,
     dropped |-> FALSE, droppedLeft |-> FALSE, skipped |-> None,
     src |-> None, via |-> None, old |-> FALSE, stale |-> FALSE,
     left |-> FALSE]

IOInit ==
    /\ ioType \in {"serial", "socket"}
    /\ lock = 0
    /\ pc = [t \in Threads |-> "idle"]
    /\ call = [t \in Threads |-> NoCall]
    /\ ret = [t \in Threads |-> NoRet]
    /\ owed = {}
    /\ inbuf = <<>>
    /\ wire = <<>>
    /\ sockq = <<>>
    /\ sbuf = <<>>
    /\ eof = FALSE
    /\ spin = 0
    /\ callsLeft = MaxCalls
    /\ noiseLeft = MaxNoise

\* the transport is constructed but not used (SpecCtl runs against a stub)
IOQuiet ==
    /\ IOInit
    /\ ioType = "serial"

Set(f, t, v) == [f EXCEPT ![t] = v]

\* the pumps the callers address: both pumps of the serial line; behind the
\* socket bridge, whose receiving path never looks at the address of the
\* request, one pump
Targets == IF ioType = "socket" THEN {"1"} ELSE PumpAddrs

\* ---- callers ----

\* a thread calls send_packet_and_read_response(packet) for a pump address
CallExchange(t) ==
    /\ pc[t] = "idle"
    /\ callsLeft > 0
    /\ \E a \in Targets :
          call' = Set(call, t, [NoCall EXCEPT !.op = "exchange",
                                              !.target = a])
    /\ pc' = Set(pc, t, "lock")
    /\ ret' = Set(ret, t, NoRet)
    /\ callsLeft' = callsLeft - 1
    /\ UNCHANGED <<ioType, lock, owed, inbuf, wire, sockq, sbuf, eof, spin,
                  noiseLeft>>
    /\ UNCHANGED notIOVars

\* a thread calls send_packet(packet) for a pump address
CallSendPacket(t) ==
    /\ pc[t] = "idle"
    /\ callsLeft > 0
    /\ \E a \in Targets :
          call' = Set(call, t, [NoCall EXCEPT !.op = "send",
                                              !.target = a])
    /\ pc' = Set(pc, t, "sp_lock")
    /\ ret' = Set(ret, t, NoRet)
    /\ callsLeft' = callsLeft - 1
    /\ UNCHANGED <<ioType, lock, owed, inbuf, wire, sockq, sbuf, eof, spin,
                  noiseLeft>>
    /\ UNCHANGED notIOVars

\* ---- the lock ----

\* `with self._lock` of send_packet_and_read_response: enter when free
ExchangeCanEnter_NoLock == TRUE

ExchangeCanEnter == lock = 0

\* `with self._lock` of send_packet: enter when free
SendPacketCanEnter_NoLock == TRUE

SendPacketCanEnter == lock = 0

\* the lock after the with-block is left by an exception
LockAfterRaise_StillHeld(t) == t

LockAfterRaise(t) == 0

\* send_packet_and_read_response: acquire the lock
Acquire(t) ==
    /\ pc[t] = "lock"
    /\ ExchangeCanEnter
    /\ lock' = t
    /\ pc' = Set(pc, t, "flush")
    /\ UNCHANGED <<ioType, call, ret, owed, inbuf, wire, sockq, sbuf, eof,
                  spin, callsLeft, noiseLeft>>
    /\ UNCHANGED notIOVars

\* send_packet: acquire the lock
SendPacketAcquire(t) ==
    /\ pc[t] = "sp_lock"
    /\ SendPacketCanEnter
    /\ lock' = t
    /\ pc' = Set(pc, t, "sp_write")
    /\ UNCHANGED <<ioType, call, ret, owed, inbuf, wire, sockq, sbuf, eof,
                  spin, callsLeft, noiseLeft>>
    /\ UNCHANGED notIOVars

\* send_packet: _send_packet, leave the with-block, return None
SendPacketWrite(t) ==
    /\ pc[t] = "sp_write"
    /\ owed' = owed \cup {[src |-> call[t].target, via |-> "send"]}
    /\ lock' = 0
    /\ pc' = Set(pc, t, "idle")
    /\ ret' = Set(ret, t, [NoRet EXCEPT !.kind = "sent",
                                        !.target = call[t].target])
    /\ call' = Set(call, t, NoCall)
    /\ UNCHANGED <<ioType, inbuf, wire, sockq, sbuf, eof, spin, callsLeft,
                  noiseLeft>>
    /\ UNCHANGED notIOVars

\* ---- what a call leaves behind when it ends ----

MarkOld(buf) == [i \in 1..Len(buf) |-> [buf[i] EXCEPT !.old = TRUE]]

MarkStale(buf) == [i \in 1..Len(buf) |-> [buf[i] EXCEPT !.stale = TRUE]]

MarkLeft(buf) == [i \in 1..Len(buf) |-> [buf[i] EXCEPT !.left = TRUE]]

AnyLeft(buf) == \E i \in 1..Len(buf) : buf[i].left

\* the result of a call that raised exc
Raised(exc, c) ==
    [NoRet EXCEPT !.kind = exc, !.target = c.target, !.dropped = c.dropped,
                  !.droppedLeft = c.droppedLeft, !.skipped = c.skipped]

\* the result of a call that returns the status st decoded from a frame
Returned(st, c, src, via, old, stale, left) ==
    [target |-> c.target, address |-> st.address, status |-> st.status,
     kind |-> "response", dropped |-> c.dropped,
     droppedLeft |-> c.droppedLeft, skipped |-> c.skipped, src |-> src,
     via |-> via, old |-> old, stale |-> stale, left |-> left]

\* thread t leaves the with-block by the exception exc
Raise(t, exc, c) ==
    /\ ret' = Set(ret, t, Raised(exc, c))
    /\ lock' = LockAfterRaise(t)
    /\ pc' = Set(pc, t, "idle")
    /\ call' = Set(call, t, NoCall)

\* thread t leaves the with-block by returning a status
Return(t, r) ==
    /\ ret' = Set(ret, t, r)
    /\ lock' = 0
    /\ pc' = Set(pc, t, "idle")
    /\ call' = Set(call, t, NoCall)

\* ---- send_packet_and_read_response, the steps both transports share ----

\* _send_packet(packet); start_time = time.time()
Write(t) ==
    /\ pc[t] = "write"
    /\ owed' = owed \cup {[src |-> call[t].target, via |-> "exchange"]}
    /\ call' = Set(call, t, [call[t] EXCEPT !.elapsed = 0])
    /\ pc' = Set(pc, t, "poll")
    /\ inbuf' = MarkStale(inbuf)
    /\ sockq' = MarkStale(sockq)
    /\ sbuf' = MarkStale(sbuf)
    /\ UNCHANGED <<ioType, lock, ret, wire, eof, spin, callsLeft, noiseLeft>>
    /\ UNCHANGED notIOVars

\* the while condition fails: raise PumpIOTimeOutError
Timeout(t) ==
    /\ pc[t] = "poll"
    /\ call[t].elapsed >= TimeoutPolls
    /\ Raise(t, "PumpIOTimeOutError", call[t])
    /\ inbuf' = MarkLeft(inbuf)
    /\ sockq' = MarkLeft(sockq)
    /\ sbuf' = MarkLeft(sbuf)
    /\ UNCHANGED <<ioType, owed, wire, eof, spin, callsLeft, noiseLeft>>
    /\ UNCHANGED notIOVars

\* ---- SerialIO ----

\* self._serial.reset_input_buffer()
SerialFlushed_KeepsInput(buf) == buf

SerialFlushed(buf) == <<>>

SerialFlush(t) ==
    /\ ioType = "serial"
    /\ pc[t] = "flush"
    /\ inbuf' = MarkOld(SerialFlushed(inbuf))
    /\ call' = Set(call, t, [call[t] EXCEPT !.dropped = inbuf # <<>>,
                                            !.droppedLeft = AnyLeft(inbuf)])
    /\ pc' = Set(pc, t, "write")
    /\ UNCHANGED <<ioType, lock, ret, owed, wire, sockq, sbuf, eof, spin,
                   callsLeft, noiseLeft>>
    /\ UNCHANGED notIOVars

\* SerialIO._read_response on a line msg: DTStatusDecodeError is caught and
\* gives None, any other exception leaves the method, a status whose address
\* is not Address.Master gives None
SerialReadResponse_NoAddressFilter(msg) ==
    LET st == DTStatus(msg)
    IN IF st.err = "DTStatusDecodeError"
       THEN [kind |-> "none", exc |-> None, st |-> st]
       ELSE IF st.err # None
       THEN [kind |-> "raise", exc |-> st.err, st |-> st]
       ELSE [kind |-> "response", exc |-> None, st |-> st]

SerialReadResponse(msg) ==
    LET st == DTStatus(msg)
    IN IF st.err = "DTStatusDecodeError"
       THEN [kind |-> "none", exc |-> None, st |-> st]
       ELSE IF st.err # None
       THEN [kind |-> "raise", exc |-> st.err, st |-> st]
       ELSE IF st.address # AddressMaster
       THEN [kind |-> "none", exc |-> None, st |-> st]
       ELSE [kind |-> "response", exc |-> None, st |-> st]

\* one iteration of _get_next_response with nothing to read: readline()
\* returns b'', _read_response returns None, time.sleep(poll_interval)
SerialPollEmpty(t) ==
    /\ ioType = "serial"
    /\ pc[t] = "poll"
    /\ call[t].elapsed < TimeoutPolls
    /\ inbuf = <<>>
    /\ call' = Set(call, t, [call[t] EXCEPT !.elapsed = @ + 1])
    /\ UNCHANGED <<ioType, lock, pc, ret, owed, inbuf, wire, sockq, sbuf, eof,
                   spin, callsLeft, noiseLeft>>
    /\ UNCHANGED notIOVars

\* one iteration of _get_next_response that reads a line
SerialPollLine(t) ==
    /\ ioType = "serial"
    /\ pc[t] = "poll"
    /\ call[t].elapsed < TimeoutPolls
    /\ inbuf # <<>>
    /\ LET msg == Head(inbuf)
           r == SerialReadResponse(msg.bytes)
       IN CASE r.kind = "response" ->
                 /\ Return(t, Returned(r.st, call[t], msg.src, msg.via,
                                       msg.old, msg.stale, msg.left))
                 /\ inbuf' = Tail(inbuf)
            [] r.kind = "raise" ->
                 /\ Raise(t, r.exc, call[t])
                 /\ inbuf' = MarkLeft(Tail(inbuf))
            [] OTHER ->
                 /\ call' = Set(call, t,
                       [call[t] EXCEPT !.elapsed = @ + 1,
                                       !.skipped =
                                           IF r.st.err = None
                                           THEN SkippedAs(r.st) ELSE @])
                 /\ inbuf' = Tail(inbuf)
                 /\ UNCHANGED <<lock, pc, ret>>
    /\ UNCHANGED <<ioType, owed, wire, sockq, sbuf, eof, spin, callsLeft,
                   noiseLeft>>
    /\ UNCHANGED notIOVars

\* ---- SocketIO ----

\* bytes.find(ch, from): the first index at or after from, 0 when absent
Find(buf, ch, from) ==
    IF \E i \in from..Len(buf) : buf[i].c = ch
    THEN CHOOSE i \in from..Len(buf) :
            /\ buf[i].c = ch
            /\ \A j \in from..(i - 1) : buf[j].c # ch
    ELSE 0

\* SocketIO._extract_next_response_from_buffer: the frame, if any, and the
\* buffer it leaves
ExtractNextResponseFromBuffer_DropsPartial(buf) ==
    LET start_idx == Find(buf, DTStart, 1)
    IN IF start_idx = 0
       THEN [buf |-> <<>>, msg |-> <<>>, found |-> FALSE]
       ELSE LET stop_idx == Find(buf, DTStop, start_idx)
            IN IF stop_idx = 0
               THEN [buf |-> <<>>, msg |-> <<>>, found |-> FALSE]
               ELSE [buf |-> SubSeq(buf, stop_idx + 1, Len(buf)),
                     msg |-> SubSeq(buf, start_idx, stop_idx), found |-> TRUE]

ExtractNextResponseFromBuffer(buf) ==
    LET start_idx == Find(buf, DTStart, 1)
    IN IF start_idx = 0
       THEN [buf |-> <<>>, msg |-> <<>>, found |-> FALSE]
       ELSE LET stop_idx == Find(buf, DTStop, start_idx)
            IN IF stop_idx = 0
               THEN [buf |-> buf, msg |-> <<>>, found |-> FALSE]
               ELSE [buf |-> SubSeq(buf, stop_idx + 1, Len(buf)),
                     msg |-> SubSeq(buf, start_idx, stop_idx), found |-> TRUE]

Chars(msg) == [i \in 1..Len(msg) |-> msg[i].c]

RECURSIVE RecvStatusLoop_NoAddressFilter(_, _)
RecvStatusLoop_NoAddressFilter(buf, skipped) ==
    LET e == ExtractNextResponseFromBuffer(buf)
    IN IF ~e.found
       THEN [kind |-> "none", exc |-> None, st |-> NoDTStatus,
             skipped |-> skipped, buf |-> e.buf, msg |-> <<>>]
       ELSE LET st == DTStatus(Chars(e.msg))
            IN IF st.err # None
               THEN [kind |-> "raise", exc |-> st.err, st |-> st,
                     skipped |-> skipped, buf |-> e.buf, msg |-> e.msg]
               ELSE [kind |-> "response", exc |-> None, st |-> st,
                     skipped |-> skipped, buf |-> e.buf, msg |-> e.msg]

RECURSIVE RecvStatusLoop(_, _)
\* the while loop of SocketIO._recv_status over the buffer: DTStatus(msg) may
\* raise, a master-addressed status is returned, any other frame is passed
\* over
RecvStatusLoop(buf, skipped) ==
    LET e == ExtractNextResponseFromBuffer(buf)
    IN IF ~e.found
       THEN [kind |-> "none", exc |-> None, st |-> NoDTStatus,
             skipped |-> skipped, buf |-> e.buf, msg |-> <<>>]
       ELSE LET st == DTStatus(Chars(e.msg))
            IN IF st.err # None
               THEN [kind |-> "raise", exc |-> st.err, st |-> st,
                     skipped |-> skipped, buf |-> e.buf, msg |-> e.msg]
               ELSE IF st.address = AddressMaster
               THEN [kind |-> "response", exc |-> None, st |-> st,
                     skipped |-> skipped, buf |-> e.buf, msg |-> e.msg]
               ELSE RecvStatusLoop(e.buf, SkippedAs(st))

\* _reset_input_buffer: an iteration whose _recv() returns data
SocketResetRecv(t) ==
    /\ ioType = "socket"
    /\ pc[t] = "flush"
    /\ sockq # <<>>
    /\ sockq' = <<>>
    /\ call' = Set(call, t, [call[t] EXCEPT !.dropped = TRUE,
                                !.droppedLeft = @ \/ AnyLeft(sockq)])
    /\ UNCHANGED <<ioType, lock, pc, ret, owed, inbuf, wire, sbuf, eof, spin,
                   callsLeft, noiseLeft>>
    /\ UNCHANGED notIOVars

\* _reset_input_buffer: an iteration on a connection the remote end has
\* closed: select reports the socket readable, recv returns b'', which is
\* not None, so the loop goes round again
SocketResetEOF(t) ==
    /\ ioType = "socket"
    /\ pc[t] = "flush"
    /\ sockq = <<>>
    /\ eof
    /\ spin' = 1 - spin
    /\ UNCHANGED <<ioType, lock, pc, call, ret, owed, inbuf, wire, sockq, sbuf,
                   eof, callsLeft, noiseLeft>>
    /\ UNCHANGED notIOVars

\* self._buf.clear()
SocketBufCleared_KeepsBuf(buf) == buf

SocketBufCleared(buf) == <<>>

\* _reset_input_buffer: _recv() returns None, the loop ends, _buf is cleared
SocketResetDone(t) ==
    /\ ioType = "socket"
    /\ pc[t] = "flush"
    /\ sockq = <<>>
    /\ ~eof
    /\ sbuf' = MarkOld(SocketBufCleared(sbuf))
    /\ call' = Set(call, t, [call[t] EXCEPT !.dropped = @ \/ sbuf # <<>>,
                                !.droppedLeft = @ \/ AnyLeft(sbuf)])
    /\ pc' = Set(pc, t, "write")
    /\ UNCHANGED <<ioType, lock, ret, owed, inbuf, wire, sockq, eof, spin,
                   callsLeft, noiseLeft>>
    /\ UNCHANGED notIOVars

\* one poll iteration whose _recv_status finds nothing to receive: None,
\* time.sleep(0.2)
SocketPollNone(t) ==
    /\ ioType = "socket"
    /\ pc[t] = "poll"
    /\ call[t].elapsed < TimeoutPolls
    /\ sockq = <<>>
    /\ ~eof
    /\ call' = Set(call, t, [call[t] EXCEPT !.elapsed = @ + 1])
    /\ UNCHANGED <<ioType, lock, pc, ret, owed, inbuf, wire, sockq, sbuf, eof,
                   spin, callsLeft, noiseLeft>>
    /\ UNCHANGED notIOVars

\* one poll iteration whose recv returns b'': raise EOFError
SocketPollEOF(t) ==
    /\ ioType = "socket"
    /\ pc[t] = "poll"
    /\ call[t].elapsed < TimeoutPolls
    /\ sockq = <<>>
    /\ eof
    /\ Raise(t, "EOFError", call[t])
    /\ sbuf' = MarkLeft(sbuf)
    /\ UNCHANGED <<ioType, owed, inbuf, wire, sockq, eof, spin, callsLeft,
                   noiseLeft>>
    /\ UNCHANGED notIOVars

\* one poll iteration whose recv returns data: self._buf += data, then the
\* extraction loop
SocketPollData(t) ==
    /\ ioType = "socket"
    /\ pc[t] = "poll"
    /\ call[t].elapsed < TimeoutPolls
    /\ sockq # <<>>
    /\ sockq' = <<>>
    /\ LET r == RecvStatusLoop(sbuf \o sockq, None)
           c == [call[t] EXCEPT !.skipped =
                                    IF r.skipped # None THEN r.skipped ELSE @]
       IN CASE r.kind = "response" ->
                 /\ Return(t, Returned(r.st, c, r.msg[1].src, r.msg[1].via,
                        \E i \in 1..Len(r.msg) : r.msg[i].old,
                        \A i \in 1..Len(r.msg) : r.msg[i].stale,
                        \E i \in 1..Len(r.msg) : r.msg[i].left))
                 /\ sbuf' = r.buf
            [] r.kind = "raise" ->
                 /\ Raise(t, r.exc, c)
                 /\ sbuf' = MarkLeft(r.buf)
            [] OTHER ->
                 /\ call' = Set(call, t, [c EXCEPT !.elapsed = @ + 1])
                 /\ sbuf' = r.buf
                 /\ UNCHANGED <<lock, pc, ret>>
    /\ UNCHANGED <<ioType, owed, inbuf, wire, eof, spin, callsLeft, noiseLeft>>
    /\ UNCHANGED notIOVars

\* ---- the line and the devices ----

\* the bytes of a frame as they travel to a socket, tagged with their origin
OnWire(bytes, src, via) ==
    [i \in 1..Len(bytes) |->
        [src |-> src, via |-> via, old |-> FALSE, stale |-> FALSE,
         left |-> FALSE, c |-> bytes[i]]]

\* a frame arrives at the host: a line in the serial input buffer, or bytes
\* towards the socket
Arrive(bytes, src, via) ==
    IF ioType = "serial"
    THEN /\ inbuf' = Append(inbuf, [src |-> src, via |-> via, old |-> FALSE,
                                    stale |-> FALSE, left |-> FALSE,
                                    bytes |-> bytes])
         /\ UNCHANGED wire
    ELSE /\ wire' = wire \o OnWire(bytes, src, via)
         /\ UNCHANGED inbuf

\* Input that arrives while no call is running is first seen by the flush of
\* the next call, exactly as input that arrives just after that call took the
\* lock: arrivals are taken to happen while some call holds the lock.
Observed == lock # 0

\* a pump answers a packet it was sent, at any time after the packet; the
\* bridge forwards one frame after the other
DeviceReply ==
    /\ Observed
    /\ ~eof
    /\ wire = <<>>
    /\ \E r \in owed :
          /\ owed' = owed \ {r}
          /\ Arrive(ReplyBytes, r.src, r.via)
    /\ UNCHANGED <<ioType, lock, pc, call, ret, sockq, sbuf, eof, spin,
                   callsLeft, noiseLeft>>
    /\ UNCHANGED notIOVars

\* a frame that answers no packet of this host arrives
Noise ==
    /\ Observed
    /\ ~eof
    /\ wire = <<>>
    /\ noiseLeft > 0
    /\ noiseLeft' = noiseLeft - 1
    /\ \E f \in NoiseFrames : Arrive(f, "noise", "noise")
    /\ UNCHANGED <<ioType, lock, pc, call, ret, owed, sockq, sbuf, eof, spin,
                   callsLeft>>
    /\ UNCHANGED notIOVars

\* the next part of a frame reaches the socket receive queue
Deliver ==
    /\ Observed
    /\ ioType = "socket"
    /\ wire # <<>>
    /\ \E k \in {ChunkLen, Len(wire)} \cap (1..Len(wire)) :
          /\ sockq' = sockq \o SubSeq(wire, 1, k)
          /\ wire' = SubSeq(wire, k + 1, Len(wire))
    /\ UNCHANGED <<ioType, lock, pc, call, ret, owed, inbuf, sbuf, eof, spin,
                   callsLeft, noiseLeft>>
    /\ UNCHANGED notIOVars

\* the remote end closes the connection
RemoteClose ==
    /\ ioType = "socket"
    /\ ~eof
    /\ wire = <<>>
    /\ eof' = TRUE
    /\ UNCHANGED <<ioType, lock, pc, call, ret, owed, inbuf, wire, sockq, sbuf,
                   spin, callsLeft, noiseLeft>>
    /\ UNCHANGED notIOVars

\* ---- specifications ----

\* the steps of thread t inside a call it has made
ThreadStep(t) ==
    \/ Acquire(t)
    \/ SendPacketAcquire(t)
    \/ SendPacketWrite(t)
    \/ SerialFlush(t)
    \/ SocketResetRecv(t)
    \/ SocketResetEOF(t)
    \/ SocketResetDone(t)
    \/ Write(t)
    \/ SerialPollEmpty(t)
    \/ SerialPollLine(t)
    \/ SocketPollNone(t)
    \/ SocketPollEOF(t)
    \/ SocketPollData(t)
    \/ Timeout(t)

IONext ==
    \/ \E t \in Threads : CallExchange(t)
    \/ \E t \in Threads : CallSendPacket(t)
    \/ \E t \in Threads : ThreadStep(t)
    \/ DeviceReply
    \/ Noise
    \/ Deliver
    \/ RemoteClose

\* ------------------------------------------------------------------------
\* Part 4: decoding a response, from the bytes to what is_idle makes of them
\* ------------------------------------------------------------------------

\* longest data field of the responses that are decoded
MaxDataLen == 1

\* the pieces the decoded byte strings are put together from: with or without
\* the start delimiter, with or without an address character (the master's,
\* another bus address, a character that is no Address value), with or
\* without a status character (every one of the table, one outside it, a byte
\* that is not valid UTF-8), a data field, and the ways a response ends
FrameStarts == {<<>>, <<DTStart>>}
FrameAddresses == {<<>>, <<AddressMaster>>, <<"2">>, <<"x">>}
FrameStatuses == {<<>>, <<"FF">>} \cup {<<c>> : c \in StubStatusChars}
FrameData == {[i \in 1..n |-> "5"] : n \in 0..MaxDataLen}
FrameEnds == {<<>>, <<DTStop>>, <<"ETX", DTStop, "LF">>}

DTFrames ==
    {s \o a \o c \o d \o e :
        s \in FrameStarts, a \in FrameAddresses, c \in FrameStatuses,
        d \in FrameData, e \in FrameEnds}

DTQuiet ==
    /\ frame = <<>>
    /\ dtpc = "off"
    /\ decoded = NoDTStatus
    /\ pstatus = NoPumpStatus
    /\ idle = NoOutcome

DTInit ==
    /\ frame \in DTFrames
    /\ dtpc = "bytes"
    /\ decoded = NoDTStatus
    /\ pstatus = NoPumpStatus
    /\ idle = NoOutcome

\* DTStatus(response)
DTDecode ==
    /\ dtpc = "bytes"
    /\ decoded' = DTStatus(frame)
    /\ dtpc' = "decoded"
    /\ UNCHANGED <<frame, pstatus, idle>>
    /\ UNCHANGED notDTVars

\* is_idle on a response that the transport returns: a DTStatus that was
\* built without an exception and is addressed to the master
DTIsIdle ==
    /\ dtpc = "decoded"
    /\ decoded.err = None
    /\ decoded.address = AddressMaster
    /\ pstatus' = PumpStatus_try_decode(decoded.status)
    /\ idle' = IsIdleResult(decoded)
    /\ dtpc' = "checked"
    /\ UNCHANGED <<frame, decoded>>
    /\ UNCHANGED notDTVars

DTNext ==
    \/ DTDecode
    \/ DTIsIdle

\* ------------------------------------------------------------------------
\* Part 5: PumpController.pump, deliver, go_to_volume, set_valve_position
\* and transfer, against a pump that answers every packet
\* ------------------------------------------------------------------------

\* Volumes are counted in units of 1e-3 mL, the volume below which transfer
\* stops (controller/base.py:695), so that they are integers.
UnitsPerMl == 1000

\* number_of_steps and total_volume (in mL) of the pump of the model
NumberOfSteps == 4
TotalVolumeMl == 1

\* calls made in one run, and rounds of one transfer that are followed
MaxOps == 2
MaxStrokes == 3

total_volume == TotalVolumeMl * UnitsPerMl

\* steps_per_ml: int(number_of_steps / total_volume)
steps_per_ml == NumberOfSteps \div TotalVolumeMl

\* round(num / den) as Python 3 rounds: to the nearest integer, a tie to the
\* even one
Round(num, den) ==
    LET q == num \div den
        r == num % den
    IN IF 2 * r < den THEN q
       ELSE IF 2 * r > den THEN q + 1
       ELSE IF q % 2 = 0 THEN q ELSE q + 1

\* volume_to_step at a given steps_per_ml
VolumeToStep_RoundFirst(volume_in_ml, spm) ==
    Round(volume_in_ml, UnitsPerMl) * spm

VolumeToStep(volume_in_ml, spm) == Round(volume_in_ml * spm, UnitsPerMl)

\* volume_to_step: int(round(volume_in_ml * self.steps_per_ml))
volume_to_step(volume_in_ml) == VolumeToStep(volume_in_ml, steps_per_ml)

\* step_to_volume: step / float(self.steps_per_ml); a whole number of units
\* for every steps_per_ml that divides UnitsPerMl
step_to_volume(step) == (step * UnitsPerMl) \div steps_per_ml

\* remaining_volume, the plunger being at position current_steps
remaining_volume(current_steps) == total_volume - step_to_volume(current_steps)

Min(a, b) == IF a <= b THEN a ELSE b

\* the arguments of the calls; the valve argument of a pump or a deliver is
\* None or the position the valve of the pump is not in at first
VolumeArgs == {0, 125, 500, 1000, 1250}
TransferArgs == {1, 500, 1001, 2500}
ValveArgs == {"Input", "Output"}
MoveValveArgs == {None, "Output"}
DefaultTopVelocity == "default_top_velocity"
CustomTopVelocity == "custom"

NoPumpOp ==
    [volume_in_ml |-> 0, name |-> None, valve |-> None, speed |-> None,
     wait |-> FALSE, secure |-> FALSE]

\* transfer: its position (stage), its argument as it was passed
\* (requested) and as it is counted down (volume_in_ml), the plunger position
\* at the call (start) and whether the pump was idle then (at_rest), the
\* volume of the running round and of the past ones
NoXfer ==
    [volume_in_ml |-> 0, stage |-> "off", requested |-> 0, start |-> 0,
     at_rest |-> TRUE, volume_transferred |-> 0, strokes |-> <<>>]

\* a packet as the device receives it: the command, its operand (steps for a
\* move, arg for a velocity or a valve), the plunger position (at) and
\* whether the device is idle (at_idle) at that moment
Packet(cmd, steps, arg) ==
    [cmd |-> cmd, steps |-> steps, arg |-> arg, at |-> plunger,
     at_idle |-> plunger = target]

Query(cmd) == Packet(cmd, 0, None)

\* ... and the report-valve-position packet with the position it is
\* answered with
ValveQuery == Packet("ReportValvePosition", 0, dvalve)

\* the mark that wait_until_idle has polled the status until the pump was idle
Waited == Packet("wait_until_idle", 0, None)

MoveCommands == {"MovePickup", "MoveDeliver", "MoveAbsolute"}
SettingCommands == {"SetTopVelocity", "SelectValve"}

PumpQuiet ==
    /\ plunger = 0
    /\ target = 0
    /\ dvalve = "Input"
    /\ dvelocity = DefaultTopVelocity
    /\ pop = NoPumpOp
    /\ ppc = "off"
    /\ seen = 0
    /\ sent = <<>>
    /\ result = None
    /\ xfer = NoXfer
    /\ opsLeft = 0

\* an initialized pump at rest, its plunger anywhere
PumpInit ==
    /\ plunger \in 0..NumberOfSteps
    /\ target = plunger
    /\ dvalve = "Input"
    /\ dvelocity = DefaultTopVelocity
    /\ pop = NoPumpOp
    /\ ppc = "idle"
    /\ seen = 0
    /\ sent = <<>>
    /\ result = None
    /\ xfer = NoXfer
    /\ opsLeft = MaxOps

\* the first statement of a call
Begin(o) ==
    /\ pop' = o
    /\ ppc' = IF o.name = "set_valve_position" THEN "valve" ELSE "check"
    /\ seen' = 0
    /\ sent' = <<>>
    /\ result' = None

\* the caller has the return value
End ==
    /\ pop' = NoPumpOp
    /\ ppc' = "idle"
    /\ seen' = 0
    /\ sent' = <<>>
    /\ result' = None

Call(o) ==
    /\ ppc = "idle"
    /\ xfer.stage = "off"
    /\ opsLeft > 0
    /\ opsLeft' = opsLeft - 1
    /\ Begin(o)
    /\ UNCHANGED <<plunger, target, dvalve, dvelocity, xfer>>
    /\ UNCHANGED notPumpVars

\* pump(volume_in_ml, from_valve, speed_in, wait, secure)
CallPump ==
    \E v \in VolumeArgs, fv \in MoveValveArgs,
       sp \in {None, CustomTopVelocity}, w \in BOOLEAN, sec \in BOOLEAN :
        Call([volume_in_ml |-> v, name |-> "pump", valve |-> fv, speed |-> sp,
              wait |-> w, secure |-> sec])

\* deliver(volume_in_ml, to_valve, speed_out, wait, secure)
CallDeliver ==
    \E v \in VolumeArgs, tv \in MoveValveArgs,
       sp \in {None, CustomTopVelocity}, w \in BOOLEAN, sec \in BOOLEAN :
        Call([volume_in_ml |-> v, name |-> "deliver", valve |-> tv,
              speed |-> sp, wait |-> w, secure |-> sec])

\* go_to_volume(volume_in_ml, speed, wait, secure)
CallGoToVolume ==
    \E v \in VolumeArgs, sp \in {None, CustomTopVelocity},
       w \in BOOLEAN, sec \in BOOLEAN :
        Call([volume_in_ml |-> v, name |-> "go_to_volume", valve |-> None,
              speed |-> sp, wait |-> w, secure |-> sec])

\* set_valve_position(valve_position, secure)
CallSetValvePosition ==
    \E vp \in ValveArgs, sec \in BOOLEAN :
        Call([volume_in_ml |-> 0, name |-> "set_valve_position", valve |-> vp,
              speed |-> None, wait |-> FALSE, secure |-> sec])

\* is_volume_pumpable: steps <= self.remaining_steps
IsVolumePumpable_AnyPosition(volume_in_ml, current_steps) ==
    volume_to_step(volume_in_ml) <= NumberOfSteps

IsVolumePumpable(volume_in_ml, current_steps) ==
    volume_to_step(volume_in_ml) <= NumberOfSteps - current_steps

\* is_volume_deliverable: steps <= self.current_steps
IsVolumeDeliverable(volume_in_ml, current_steps) ==
    volume_to_step(volume_in_ml) <= current_steps

\* is_volume_valid: 0 <= volume_in_ml <= self.total_volume
IsVolumeValid(volume_in_ml) ==
    0 <= volume_in_ml /\ volume_in_ml <= total_volume

\* deliver: if volume_in_ml == 0: return True
DeliverNothing_Never(volume_in_ml) == FALSE

DeliverNothing(volume_in_ml) == volume_in_ml = 0

\* pump: if self.is_volume_pumpable(volume_in_ml): ... else: return False
PumpCheck ==
    /\ ppc = "check"
    /\ pop.name = "pump"
    /\ seen' = plunger
    /\ sent' = Append(sent, Query("ReportPlungerPosition"))
    /\ IF IsVolumePumpable(pop.volume_in_ml, plunger)
       THEN ppc' = "velocity" /\ result' = result
       ELSE ppc' = "done" /\ result' = "False"
    /\ UNCHANGED <<plunger, target, dvalve, dvelocity, pop, xfer, opsLeft>>
    /\ UNCHANGED notPumpVars

\* deliver: if self.is_volume_deliverable(volume_in_ml): if volume_in_ml ==
\* 0: return True ... else: return False
DeliverCheck ==
    /\ ppc = "check"
    /\ pop.name = "deliver"
    /\ seen' = plunger
    /\ sent' = Append(sent, Query("ReportPlungerPosition"))
    /\ IF ~IsVolumeDeliverable(pop.volume_in_ml, plunger)
       THEN ppc' = "done" /\ result' = "False"
       ELSE IF DeliverNothing(pop.volume_in_ml)
       THEN ppc' = "done" /\ result' = "True"
       ELSE ppc' = "velocity" /\ result' = result
    /\ UNCHANGED <<plunger, target, dvalve, dvelocity, pop, xfer, opsLeft>>
    /\ UNCHANGED notPumpVars

\* go_to_volume: if self.is_volume_valid(volume_in_ml): ... else: return False
GoToVolumeCheck ==
    /\ ppc = "check"
    /\ pop.name = "go_to_volume"
    /\ IF IsVolumeValid(pop.volume_in_ml)
       THEN ppc' = "velocity" /\ result' = result
       ELSE ppc' = "done" /\ result' = "False"
    /\ UNCHANGED <<plunger, target, dvalve, dvelocity, pop, seen, sent, xfer,
                   opsLeft>>
    /\ UNCHANGED notPumpVars

\* the packets of set_top_velocity(top_velocity, secure): the velocity is
\* read; if it differs it is set, and with secure it is read again
SetTopVelocityPackets(top_velocity, secure) ==
    <<Query("ReportTopVelocity")>>
    \o (IF dvelocity = top_velocity
        THEN <<>>
        ELSE <<Packet("SetTopVelocity", 0, top_velocity)>>
             \o (IF secure THEN <<Query("ReportTopVelocity")>> ELSE <<>>))

\* the packets of reset_top_velocity(secure): the velocity is read and, if
\* it is not the default, set_top_velocity(default_top_velocity) follows
ResetTopVelocityPackets(secure) ==
    <<Query("ReportTopVelocity")>>
    \o (IF dvelocity = DefaultTopVelocity
        THEN <<>>
        ELSE SetTopVelocityPackets(DefaultTopVelocity, secure))

\* if speed is not None: set_top_velocity(speed) else: reset_top_velocity();
\* the pump takes the velocity it is sent
Velocity ==
    /\ ppc = "velocity"
    /\ sent' = sent \o (IF pop.speed # None
                        THEN SetTopVelocityPackets(pop.speed, pop.secure)
                        ELSE ResetTopVelocityPackets(pop.secure))
    /\ dvelocity' = IF pop.speed # None THEN pop.speed ELSE DefaultTopVelocity
    /\ ppc' = IF pop.name \in {"pump", "deliver"} /\ pop.valve # None
              THEN "valve" ELSE "move"
    /\ UNCHANGED <<plunger, target, dvalve, pop, seen, result, xfer, opsLeft>>
    /\ UNCHANGED notPumpVars

\* set_valve_position: if secure is False: return True
ValveUnchecked_Never(secure) == FALSE

ValveUnchecked(secure) == secure = FALSE

\* where a call goes on after set_valve_position has returned True
AfterValve ==
    /\ ppc' = IF pop.name = "set_valve_position" THEN "done" ELSE "move"
    /\ result' = IF pop.name = "set_valve_position" THEN "True" ELSE result

\* set_valve_position, first iteration: the position is read; if it is the
\* requested one the call returns True, else the valve packet is sent and,
\* without secure, the call returns True; the pump turns its valve
Valve ==
    /\ ppc = "valve"
    /\ IF dvalve = pop.valve
       THEN /\ sent' = Append(sent, ValveQuery)
            /\ AfterValve
            /\ UNCHANGED dvalve
       ELSE /\ sent' = sent \o <<ValveQuery,
                                 Packet("SelectValve", 0, pop.valve)>>
            /\ dvalve' = pop.valve
            /\ IF ValveUnchecked(pop.secure)
               THEN AfterValve
               ELSE ppc' = "valve_wait" /\ result' = result
    /\ UNCHANGED <<plunger, target, dvelocity, pop, seen, xfer, opsLeft>>
    /\ UNCHANGED notPumpVars

\* set_valve_position with secure: wait_until_idle(), then the next
\* iteration reads the position, finds the requested one and returns True
ValveWait ==
    /\ ppc = "valve_wait"
    /\ plunger = target
    /\ sent' = sent \o <<Waited, ValveQuery>>
    /\ AfterValve
    /\ UNCHANGED <<plunger, target, dvalve, dvelocity, pop, seen, xfer,
                   opsLeft>>
    /\ UNCHANGED notPumpVars

\* pickup_move, deliver_move and the move of go_to_volume: the packet they
\* forge from the volume
MovePacket_InVolume(name, volume_in_ml) ==
    Packet(CASE name = "pump" -> "MovePickup"
             [] name = "deliver" -> "MoveDeliver"
             [] OTHER -> "MoveAbsolute",
           volume_in_ml, None)

MovePacket(name, volume_in_ml) ==
    Packet(CASE name = "pump" -> "MovePickup"
             [] name = "deliver" -> "MoveDeliver"
             [] OTHER -> "MoveAbsolute",
           volume_to_step(volume_in_ml), None)

\* the plunger position a move packet asks for, as the device receives it
Commanded(packet) ==
    CASE packet.cmd = "MovePickup" -> packet.at + packet.steps
      [] packet.cmd = "MoveDeliver" -> packet.at - packet.steps
      [] OTHER -> packet.steps

\* the pump starts a move when it is idle and the move ends inside the
\* syringe; any other move packet is answered and not carried out
DeviceTarget(packet) ==
    IF packet.at_idle /\ Commanded(packet) \in 0..NumberOfSteps
    THEN Commanded(packet)
    ELSE target

\* the move packet is sent; without wait the call returns True
Move ==
    /\ ppc = "move"
    /\ LET packet == MovePacket(pop.name, pop.volume_in_ml)
       IN /\ sent' = Append(sent, packet)
          /\ target' = DeviceTarget(packet)
    /\ IF pop.wait
       THEN ppc' = "wait" /\ result' = result
       ELSE ppc' = "done" /\ result' = "True"
    /\ UNCHANGED <<plunger, dvalve, dvelocity, pop, seen, xfer, opsLeft>>
    /\ UNCHANGED notPumpVars

\* if wait: self.wait_until_idle(); return True
WaitUntilIdle_NoPoll ==
    /\ ppc = "wait"
    /\ sent' = Append(sent, Waited)
    /\ ppc' = "done"
    /\ result' = "True"
    /\ UNCHANGED <<plunger, target, dvalve, dvelocity, pop, seen, xfer,
                   opsLeft>>
    /\ UNCHANGED notPumpVars

WaitUntilIdle ==
    /\ ppc = "wait"
    /\ plunger = target
    /\ sent' = Append(sent, Waited)
    /\ ppc' = "done"
    /\ result' = "True"
    /\ UNCHANGED <<plunger, target, dvalve, dvelocity, pop, seen, xfer,
                   opsLeft>>
    /\ UNCHANGED notPumpVars

\* a call made by the user returns
PumpReturn ==
    /\ ppc = "done"
    /\ xfer.stage = "off"
    /\ End
    /\ UNCHANGED <<plunger, target, dvalve, dvelocity, xfer, opsLeft>>
    /\ UNCHANGED notPumpVars

\* transfer(volume_in_ml, from_valve = Input, to_valve = Output)
CallTransfer ==
    /\ ppc = "idle"
    /\ xfer.stage = "off"
    /\ opsLeft > 0
    /\ opsLeft' = opsLeft - 1
    /\ \E v \in TransferArgs :
          xfer' = [NoXfer EXCEPT !.stage = "loop", !.requested = v,
                                 !.volume_in_ml = v, !.start = plunger,
                                 !.at_rest = (plunger = target)]
    /\ UNCHANGED <<plunger, target, dvalve, dvelocity, pop, ppc, seen, sent,
                   result>>
    /\ UNCHANGED notPumpVars

\* transfer: volume_transferred = min(volume_in_ml, self.remaining_volume)
VolumeTransferred_Whole(volume_in_ml, current_steps) == volume_in_ml

VolumeTransferred(volume_in_ml, current_steps) ==
    Min(volume_in_ml, remaining_volume(current_steps))

\* while volume_in_ml > 1e-3: volume_transferred = min(volume_in_ml,
\* self.remaining_volume); self.pump(volume_transferred, from_valve,
\* wait=True)
TransferPump ==
    /\ xfer.stage = "loop"
    /\ xfer.volume_in_ml > 1
    /\ Len(xfer.strokes) < MaxStrokes
    /\ LET volume_transferred ==
               VolumeTransferred(xfer.volume_in_ml, plunger)
       IN /\ xfer' = [xfer EXCEPT !.stage = "pump",
                         !.volume_transferred = volume_transferred]
          /\ Begin([volume_in_ml |-> volume_transferred, name |-> "pump",
                    valve |-> "Input", speed |-> None, wait |-> TRUE,
                    secure |-> TRUE])
    /\ UNCHANGED <<plunger, target, dvalve, dvelocity, opsLeft>>
    /\ UNCHANGED notPumpVars

\* self.deliver(volume_transferred, to_valve, wait=True)
TransferDeliver ==
    /\ xfer.stage = "pump"
    /\ ppc = "done"
    /\ xfer' = [xfer EXCEPT !.stage = "deliver"]
    /\ Begin([volume_in_ml |-> xfer.volume_transferred, name |-> "deliver",
              valve |-> "Output", speed |-> None, wait |-> TRUE,
              secure |-> TRUE])
    /\ UNCHANGED <<plunger, target, dvalve, dvelocity, opsLeft>>
    /\ UNCHANGED notPumpVars

\* volume_in_ml -= volume_transferred
TransferRoundEnd ==
    /\ xfer.stage = "deliver"
    /\ ppc = "done"
    /\ xfer' = [xfer EXCEPT
                  !.stage = "loop",
                  !.volume_in_ml = @ - xfer.volume_transferred,
                  !.strokes = Append(@, xfer.volume_transferred)]
    /\ End
    /\ UNCHANGED <<plunger, target, dvalve, dvelocity, opsLeft>>
    /\ UNCHANGED notPumpVars

\* the loop condition is false: transfer is over
TransferExit ==
    /\ xfer.stage = "loop"
    /\ ~(xfer.volume_in_ml > 1)
    /\ xfer' = [xfer EXCEPT !.stage = "done"]
    /\ UNCHANGED <<plunger, target, dvalve, dvelocity, pop, ppc, seen, sent,
                   result, opsLeft>>
    /\ UNCHANGED notPumpVars

TransferReturn ==
    /\ xfer.stage = "done"
    /\ xfer' = NoXfer
    /\ UNCHANGED <<plunger, target, dvalve, dvelocity, pop, ppc, seen, sent,
                   result, opsLeft>>
    /\ UNCHANGED notPumpVars

\* the plunger of the pump moves one step towards the end of its move
DeviceStep ==
    /\ plunger # target
    /\ plunger' = IF plunger < target THEN plunger + 1 ELSE plunger - 1
    /\ UNCHANGED <<target, dvalve, dvelocity, pop, ppc, seen, sent, result,
                   xfer, opsLeft>>
    /\ UNCHANGED notPumpVars

PumpNext ==
    \/ CallPump
    \/ CallDeliver
    \/ CallGoToVolume
    \/ CallSetValvePosition
    \/ CallTransfer
    \/ PumpCheck
    \/ DeliverCheck
    \/ GoToVolumeCheck
    \/ Velocity
    \/ Valve
    \/ ValveWait
    \/ Move
    \/ WaitUntilIdle
    \/ PumpReturn
    \/ TransferPump
    \/ TransferDeliver
    \/ TransferRoundEnd
    \/ TransferExit
    \/ TransferReturn
    \/ DeviceStep

\* ------------------------------------------------------------------------
\* Part 6: set_valve_position, set_top_velocity, the held settings and
\* initialize, against a pump and a line that may fail
\* ------------------------------------------------------------------------

\* the default of max_repeat in set_valve_position, set_top_velocity and
\* initialize
MAX_REPEAT_OPERATION == 10

\* the largest max_repeat a caller passes besides the default
MaxRepeatOp == 2

\* failures of the pump and of the line in one run, and calls in one run
MaxFaults == 2
MaxSetupCalls == 2

\* the top velocity ceiling of the coarsest microstep mode
BaseTopVelocity == 2

\* pump_protocol.ValvePosition: the members and their values
ValvePositions ==
    {"Input", "Output", "Bypass", "Extra",
     "One", "Two", "Three", "Four", "Five", "Six"}

ValvePosition_value(valve_pos) ==
    CASE valve_pos = "Input" -> "i"
      [] valve_pos = "Output" -> "o"
      [] valve_pos = "Bypass" -> "b"
      [] valve_pos = "Extra" -> "e"
      [] valve_pos = "One" -> "1"
      [] valve_pos = "Two" -> "2"
      [] valve_pos = "Three" -> "3"
      [] valve_pos = "Four" -> "4"
      [] valve_pos = "Five" -> "5"
      [] valve_pos = "Six" -> "6"

\* _VALVE_POS_DECODE.get(raw_pos)
ValvePosition_try_decode(raw_pos) ==
    IF \E valve_pos \in ValvePositions : ValvePosition_value(valve_pos) = raw_pos
    THEN CHOOSE valve_pos \in ValvePositions :
             ValvePosition_value(valve_pos) = raw_pos
    ELSE None

\* is_6way: self in _VALVE_6WAY_LIST
ValvePosition_is_6way(valve_pos) ==
    valve_pos \in {"One", "Two", "Three", "Four", "Five", "Six"}

\* an argument that is no member of pump_protocol.ValvePosition and whose
\* is_6way() is false, such as a member of the ValvePosition of config.py
ForeignValvePosition == "config.ValvePosition.Input"

\* the command bytes of the packet set_valve_position forges for a position
\* (the Execute command that follows is left out): the value of the
\* PumpCommand the forge_valve_*_packet function names, and for a 6-way
\* position the string '{}{}'.format(PumpCommand.SelectValveInput, value),
\* an Enum member being formatted as its name; None where no packet is
\* forged and ValueError is raised
ValveCommand(valve_position) ==
    CASE valve_position = "Input" -> "I"
      [] valve_position = "Output" -> "O"
      [] valve_position = "Bypass" -> "B"
      [] valve_position = "Extra" -> "B"
      [] valve_position = "One" -> "PumpCommand.SelectValveInput1"
      [] valve_position = "Two" -> "PumpCommand.SelectValveInput2"
      [] valve_position = "Three" -> "PumpCommand.SelectValveInput3"
      [] valve_position = "Four" -> "PumpCommand.SelectValveInput4"
      [] valve_position = "Five" -> "PumpCommand.SelectValveInput5"
      [] valve_position = "Six" -> "PumpCommand.SelectValveInput6"
      [] OTHER -> None

\* the valve commands of the pump (I, O, B, E and I<n>, see the notes on
\* PumpCommand) and the position each reports once it is carried out; None
\* for bytes that are no valve command
DeviceValveOf(command) ==
    CASE command = "I" -> "i"
      [] command = "O" -> "o"
      [] command = "B" -> "b"
      [] command = "E" -> "e"
      [] command = "I1" -> "1"
      [] command = "I2" -> "2"
      [] command = "I3" -> "3"
      [] command = "I4" -> "4"
      [] command = "I5" -> "5"
      [] command = "I6" -> "6"
      [] OTHER -> None

\* Microstep: the members, their values and _N_STEP_MODE
Microsteps == {"Mode0", "Mode2"}

Microstep_value(mode) == IF mode = "Mode0" THEN 0 ELSE 2

N_STEP_MODE(mode) == IF mode = "Mode0" THEN 1 ELSE 8

\* max_top_velocity: the ceiling of the mode, in proportion to its steps
max_top_velocity(mode) == BaseTopVelocity * N_STEP_MODE(mode)

\* check_top_velocity_within_range: top_velocity in range(1, max_range + 1)
TopVelocityWithinRange(top_velocity, mode) ==
    top_velocity \in 1..max_top_velocity(mode)

\* initialize_no_valve: operand_value = 1 if self.total_volume < 1 else 0
InitNoValveOperand_AlwaysZero(volume) == "0"

InitNoValveOperand(volume) == IF volume < UnitsPerMl THEN "1" ELSE "0"

\* the arguments of the calls
SetValveArgs ==
    {"Input", "Output", "Bypass", "Extra", "One", "Six", ForeignValvePosition}
InitValveArgs == {"Input", "Output"}
RepeatArgs == (0..MaxRepeatOp) \cup {MAX_REPEAT_OPERATION}
VelocityArgs ==
    {0, 1, max_top_velocity("Mode0"), max_top_velocity("Mode0") + 1,
     max_top_velocity("Mode2"), max_top_velocity("Mode2") + 1}
TotalVolumeArgs == {UnitsPerMl \div 2, UnitsPerMl}

SetupQuiet ==
    /\ cfg_total_volume = UnitsPerMl
    /\ micro_step_mode = "Mode2"
    /\ default_top_velocity = 1
    /\ dev_valve = "i"
    /\ dev_velocity = 1
    /\ dev_initialized = FALSE
    /\ dev_busy = FALSE
    /\ dev_error = None
    /\ faults = 0
    /\ sname = None
    /\ sarg = None
    /\ svel = 0
    /\ smax = 0
    /\ ssecure = FALSE
    /\ imax = 0
    /\ spc = "off"
    /\ sretry = 0
    /\ iattempt = 0
    /\ slog = <<>>
    /\ sresult = None
    /\ setupLeft = 0

\* a controller as __init__ leaves it (the default top velocity it is
\* configured with has passed the setter) and an idle pump
SetupInit ==
    /\ cfg_total_volume \in TotalVolumeArgs
    /\ micro_step_mode \in Microsteps
    /\ default_top_velocity \in {1, max_top_velocity(micro_step_mode)}
    /\ TopVelocityWithinRange(default_top_velocity, micro_step_mode)
    /\ dev_valve = "i"
    /\ dev_velocity = 1
    /\ dev_initialized \in BOOLEAN
    /\ dev_busy = FALSE
    /\ dev_error = None
    /\ faults = MaxFaults
    /\ sname = None
    /\ sarg = None
    /\ svel = 0
    /\ smax = 0
    /\ ssecure = FALSE
    /\ imax = 0
    /\ spc = "idle"
    /\ sretry = 0
    /\ iattempt = 0
    /\ slog = <<>>
    /\ sresult = None
    /\ setupLeft = MaxSetupCalls

\* ---- the calls ----

SetupBegin(name, valve_position, velocity, max_repeat, secure, attempts, at) ==
    /\ spc = "idle"
    /\ setupLeft > 0
    /\ setupLeft' = setupLeft - 1
    /\ sname' = name
    /\ sarg' = valve_position
    /\ svel' = velocity
    /\ smax' = max_repeat
    /\ ssecure' = secure
    /\ imax' = attempts
    /\ spc' = at
    /\ sretry' = 0
    /\ iattempt' = 0
    /\ slog' = <<>>
    /\ sresult' = None

\* set_valve_position(valve_position, max_repeat, secure)
SetValvePositionCall ==
    /\ \E valve_position \in SetValveArgs, max_repeat \in RepeatArgs,
          secure \in BOOLEAN :
          SetupBegin("set_valve_position", valve_position, 0, max_repeat,
                     secure, 0, "svp_read")
    /\ UNCHANGED <<heldVars, devVars, faults>>
    /\ UNCHANGED notSetupVars

\* set_top_velocity(top_velocity, max_repeat, secure)
SetTopVelocityCall ==
    /\ \E top_velocity \in VelocityArgs, max_repeat \in RepeatArgs,
          secure \in BOOLEAN :
          SetupBegin("set_top_velocity", None, top_velocity, max_repeat,
                     secure, 0, "stv_read")
    /\ UNCHANGED <<heldVars, devVars, faults>>
    /\ UNCHANGED notSetupVars

\* initialize(valve_position, max_repeat, secure); the set_valve_position it
\* calls runs with the default max_repeat
InitializeCall ==
    /\ \E valve_position \in InitValveArgs, max_repeat \in 0..MaxRepeatOp,
          secure \in BOOLEAN :
          SetupBegin("initialize", valve_position, 0, MAX_REPEAT_OPERATION,
                     secure, max_repeat, "init_valve_only")
    /\ UNCHANGED <<heldVars, devVars, faults>>
    /\ UNCHANGED notSetupVars

\* ---- what the steps share ----

\* a packet handed to _write_and_read_from_pump: the command, its operand
\* or, for a query, its answer, whether the pump was idle at that moment,
\* and whether the exchange succeeded
Entry(command, operand, how) == <<command, operand, ~dev_busy, how>>

\* the exception leaves the call, whatever it is nested in
SetupRaise_GoesOn(exc) ==
    /\ spc' = (IF sname = "initialize" THEN "init_no_valve" ELSE "done")
    /\ sresult' = exc

SetupRaise(exc) ==
    /\ spc' = "done"
    /\ sresult' = exc

\* _write_and_read_from_pump has used up its attempts
WriteFails(command, operand) ==
    /\ faults > 0
    /\ faults' = faults - 1
    /\ slog' = Append(slog, Entry(command, operand, "failed"))
    /\ SetupRaise("MaxRetriesExceededError")

\* wait_until_idle: the status is polled until the pump reports idle; a
\* status with an error makes is_idle raise PumpHardwareError
WaitUntilIdleThen(at) ==
    \/ /\ dev_error # None
       /\ slog' = Append(slog, Entry("ReportStatus", dev_error, "ok"))
       /\ SetupRaise("PumpHardwareError")
       /\ UNCHANGED faults
    \/ /\ dev_error = None
       /\ ~dev_busy
       /\ slog' = Append(slog, Entry("wait_until_idle", None, "ok"))
       /\ spc' = at
       /\ sresult' = sresult
       /\ UNCHANGED faults
    \/ WriteFails("ReportStatus", None)

\* ---- set_valve_position ----

\* return True: to the caller, or to initialize which goes on
SetValvePositionReturnsTrue ==
    IF sname = "initialize"
    THEN spc' = "init_no_valve" /\ sresult' = sresult
    ELSE spc' = "done" /\ sresult' = "True"

\* for retry in range(max_repeat) is over: raise MaxRetriesExceededError
SetValvePositionExhausted ==
    /\ spc = "svp_read"
    /\ ~RangeHasNext(sretry, smax)
    /\ SetupRaise("MaxRetriesExceededError")
    /\ UNCHANGED <<heldVars, devVars, faults, frameVars, sretry, iattempt,
                   slog, setupLeft>>
    /\ UNCHANGED notSetupVars

\* if self.get_valve_position() == valve_position: return True; else the
\* packet is forged, or ValueError is raised
SetValvePositionRead ==
    /\ spc = "svp_read"
    /\ RangeHasNext(sretry, smax)
    /\ \/ /\ slog' = Append(slog, Entry("ReportValvePosition", dev_valve,
                                        "ok"))
          /\ IF ValvePosition_try_decode(dev_valve) = sarg
             THEN SetValvePositionReturnsTrue
             ELSE IF ValveCommand(sarg) = None
             THEN SetupRaise("ValueError")
             ELSE spc' = "svp_send" /\ sresult' = sresult
          /\ UNCHANGED faults
       \/ WriteFails("ReportValvePosition", None)
    /\ UNCHANGED <<heldVars, devVars, frameVars, sretry, iattempt, setupLeft>>
    /\ UNCHANGED notSetupVars

\* the pump is handed a valve command: bytes that are no command are an
\* error of its status; a busy pump leaves the command alone; an idle one
\* turns its valve, unless the valve sticks or overloads
DeviceSelectsValve(command) ==
    IF DeviceValveOf(command) = None
    THEN /\ dev_error' = "InvalidCommand"
         /\ UNCHANGED <<dev_valve, dev_velocity, dev_initialized, dev_busy,
                        faults>>
    ELSE IF dev_busy
    THEN UNCHANGED <<devVars, faults>>
    ELSE \/ /\ dev_valve' = DeviceValveOf(command)
            /\ dev_busy' = TRUE
            /\ UNCHANGED <<dev_velocity, dev_initialized, dev_error, faults>>
         \/ /\ faults > 0
            /\ faults' = faults - 1
            /\ UNCHANGED devVars
         \/ /\ faults > 0
            /\ faults' = faults - 1
            /\ dev_error' = "ValveOverload"
            /\ UNCHANGED <<dev_valve, dev_velocity, dev_initialized, dev_busy>>

\* self._write_and_read_from_pump(valve_position_packet); if secure is
\* False: return True
SetValvePositionSend ==
    /\ spc = "svp_send"
    /\ \/ /\ slog' = Append(slog, Entry("SelectValve", ValveCommand(sarg),
                                        "ok"))
          /\ DeviceSelectsValve(ValveCommand(sarg))
          /\ IF ValveUnchecked(ssecure)
             THEN SetValvePositionReturnsTrue
             ELSE spc' = "svp_wait" /\ sresult' = sresult
       \/ WriteFails("SelectValve", ValveCommand(sarg)) /\ UNCHANGED devVars
    /\ UNCHANGED <<heldVars, frameVars, sretry, iattempt, setupLeft>>
    /\ UNCHANGED notSetupVars

\* self.wait_until_idle(), and the next iteration
SetValvePositionWait ==
    /\ spc = "svp_wait"
    /\ WaitUntilIdleThen("svp_read")
    /\ sretry' = sretry + 1
    /\ UNCHANGED <<heldVars, devVars, frameVars, iattempt, setupLeft>>
    /\ UNCHANGED notSetupVars

\* ---- set_top_velocity ----

SetTopVelocityExhausted ==
    /\ spc = "stv_read"
    /\ ~RangeHasNext(sretry, smax)
    /\ SetupRaise("MaxRetriesExceededError")
    /\ UNCHANGED <<heldVars, devVars, faults, frameVars, sretry, iattempt,
                   slog, setupLeft>>
    /\ UNCHANGED notSetupVars

\* if self.get_top_velocity() == top_velocity: return True; else
\* self.check_top_velocity_within_range(top_velocity)
SetTopVelocityRead ==
    /\ spc = "stv_read"
    /\ RangeHasNext(sretry, smax)
    /\ \/ /\ slog' = Append(slog, Entry("ReportTopVelocity",
                                        ToString(dev_velocity), "ok"))
          /\ IF dev_velocity = svel
             THEN spc' = "done" /\ sresult' = "True"
             ELSE IF ~TopVelocityWithinRange(svel, micro_step_mode)
             THEN SetupRaise("ValueError")
             ELSE spc' = "stv_send" /\ sresult' = sresult
          /\ UNCHANGED faults
       \/ WriteFails("ReportTopVelocity", None)
    /\ UNCHANGED <<heldVars, devVars, frameVars, sretry, iattempt, setupLeft>>
    /\ UNCHANGED notSetupVars

\* the top velocity packet is written, the pump takes the velocity unless it
\* fails to; if secure is False: return True; else the next iteration
SetTopVelocitySend ==
    /\ spc = "stv_send"
    /\ \/ /\ slog' = Append(slog, Entry("SetTopVelocity", ToString(svel),
                                        "ok"))
          /\ \/ dev_velocity' = svel /\ UNCHANGED faults
             \/ faults > 0 /\ faults' = faults - 1 /\ UNCHANGED dev_velocity
          /\ IF ssecure = FALSE
             THEN spc' = "done" /\ sresult' = "True"
             ELSE spc' = "stv_read" /\ sresult' = sresult
          /\ sretry' = sretry + 1
       \/ /\ WriteFails("SetTopVelocity", ToString(svel))
          /\ UNCHANGED <<dev_velocity, sretry>>
    /\ UNCHANGED <<heldVars, dev_valve, dev_initialized, dev_busy, dev_error,
                   frameVars, iattempt, setupLeft>>
    /\ UNCHANGED notSetupVars

\* ---- the held settings ----

\* the default_top_velocity setter: check_top_velocity_within_range, then
\* the assignment
DefaultTopVelocitySetter ==
    /\ spc = "idle"
    /\ setupLeft > 0
    /\ setupLeft' = setupLeft - 1
    /\ \E top_velocity \in VelocityArgs :
          /\ svel' = top_velocity
          /\ IF TopVelocityWithinRange(top_velocity, micro_step_mode)
             THEN /\ default_top_velocity' = top_velocity
                  /\ sresult' = None
             ELSE /\ default_top_velocity' = default_top_velocity
                  /\ sresult' = "ValueError"
    /\ sname' = "default_top_velocity"
    /\ spc' = "done"
    /\ slog' = <<>>
    /\ UNCHANGED <<cfg_total_volume, micro_step_mode, devVars, faults, sarg,
                   smax, ssecure, imax, sretry, iattempt>>
    /\ UNCHANGED notSetupVars

\* set_microstep_mode: self.micro_step_mode = micro_step_mode, then the
\* microstep packet is written
SetMicrostepMode ==
    /\ spc = "idle"
    /\ setupLeft > 0
    /\ setupLeft' = setupLeft - 1
    /\ \E mode \in Microsteps :
          /\ micro_step_mode' = mode
          /\ svel' = Microstep_value(mode)
          /\ \/ /\ slog' = <<Entry("MicroStepMode",
                                   ToString(Microstep_value(mode)), "ok")>>
                /\ sresult' = None
                /\ UNCHANGED faults
             \/ /\ faults > 0
                /\ faults' = faults - 1
                /\ slog' = <<Entry("MicroStepMode",
                                   ToString(Microstep_value(mode)), "failed")>>
                /\ sresult' = "MaxRetriesExceededError"
    /\ sname' = "set_microstep_mode"
    /\ spc' = "done"
    /\ UNCHANGED <<cfg_total_volume, default_top_velocity, devVars, sarg,
                   smax, ssecure, imax, sretry, iattempt>>
    /\ UNCHANGED notSetupVars

\* ---- initialize ----

\* for _ in range(max_repeat) is over: raise MaxRetriesExceededError
InitializeExhausted ==
    /\ spc = "init_valve_only"
    /\ ~RangeHasNext(iattempt, imax)
    /\ SetupRaise("MaxRetriesExceededError")
    /\ UNCHANGED <<heldVars, devVars, faults, frameVars, sretry, iattempt,
                   slog, setupLeft>>
    /\ UNCHANGED notSetupVars

\* the pump is handed an initialization command: a busy pump leaves it
\* alone, an idle one carries it out unless it fails
DeviceInitializes(plunger_too) ==
    IF dev_busy
    THEN UNCHANGED <<devVars, faults>>
    ELSE \/ /\ dev_busy' = TRUE
            /\ dev_initialized' = (dev_initialized \/ plunger_too)
            /\ dev_valve' \in {dev_valve, "i"}
            /\ UNCHANGED <<dev_velocity, dev_error, faults>>
         \/ /\ faults > 0
            /\ faults' = faults - 1
            /\ dev_busy' = TRUE
            /\ UNCHANGED <<dev_valve, dev_velocity, dev_initialized,
                           dev_error>>
         \/ /\ faults > 0
            /\ faults' = faults - 1
            /\ dev_error' = "InitFailure"
            /\ UNCHANGED <<dev_valve, dev_velocity, dev_initialized, dev_busy>>

\* self.initialize_valve_only(): the packet with the operand '0,0' ...
InitializeValveOnly ==
    /\ spc = "init_valve_only"
    /\ RangeHasNext(iattempt, imax)
    /\ \/ /\ slog' = Append(slog, Entry("InitValveOnly", "0,0", "ok"))
          /\ DeviceInitializes(FALSE)
          /\ spc' = "init_valve_only_wait"
          /\ sresult' = sresult
       \/ WriteFails("InitValveOnly", "0,0") /\ UNCHANGED devVars
    /\ UNCHANGED <<heldVars, frameVars, sretry, iattempt, setupLeft>>
    /\ UNCHANGED notSetupVars

\* ... and wait_until_idle(); then self.set_valve_position(valve_position,
\* secure=secure)
InitializeValveOnlyWait ==
    /\ spc = "init_valve_only_wait"
    /\ WaitUntilIdleThen("svp_read")
    /\ sretry' = 0
    /\ UNCHANGED <<heldVars, devVars, frameVars, iattempt, setupLeft>>
    /\ UNCHANGED notSetupVars

\* self.initialize_no_valve(): the packet with the operand the total volume
\* asks for ...
InitializeNoValve ==
    /\ spc = "init_no_valve"
    /\ \/ /\ slog' = Append(slog, Entry("InitNoValve",
                                        InitNoValveOperand(cfg_total_volume),
                                        "ok"))
          /\ DeviceInitializes(TRUE)
          /\ spc' = "init_no_valve_wait"
          /\ sresult' = sresult
       \/ /\ WriteFails("InitNoValve", InitNoValveOperand(cfg_total_volume))
          /\ UNCHANGED devVars
    /\ UNCHANGED <<heldVars, frameVars, sretry, iattempt, setupLeft>>
    /\ UNCHANGED notSetupVars

\* ... and wait_until_idle()
InitializeNoValveWait ==
    /\ spc = "init_no_valve_wait"
    /\ WaitUntilIdleThen("init_verify")
    /\ UNCHANGED <<heldVars, devVars, frameVars, sretry, iattempt, setupLeft>>
    /\ UNCHANGED notSetupVars

\* if self.is_initialized(): return True; else the next attempt
InitializeVerify ==
    /\ spc = "init_verify"
    /\ \/ /\ slog' = Append(slog, Entry("ReportIsInitialized",
                                        IF dev_initialized THEN "1" ELSE "0",
                                        "ok"))
          /\ IF dev_initialized
             THEN spc' = "done" /\ sresult' = "True" /\ UNCHANGED iattempt
             ELSE /\ spc' = "init_valve_only"
                  /\ sresult' = sresult
                  /\ iattempt' = iattempt + 1
          /\ UNCHANGED faults
       \/ WriteFails("ReportIsInitialized", None) /\ UNCHANGED iattempt
    /\ UNCHANGED <<heldVars, devVars, frameVars, sretry, setupLeft>>
    /\ UNCHANGED notSetupVars

\* ---- the caller and the pump ----

\* the caller has the return value or the exception
SetupReturn ==
    /\ spc = "done"
    /\ spc' = "idle"
    /\ sname' = None
    /\ sarg' = None
    /\ svel' = 0
    /\ smax' = 0
    /\ ssecure' = FALSE
    /\ imax' = 0
    /\ sretry' = 0
    /\ iattempt' = 0
    /\ slog' = <<>>
    /\ sresult' = None
    /\ UNCHANGED <<heldVars, devVars, faults, setupLeft>>
    /\ UNCHANGED notSetupVars

\* the pump has carried out its command
DeviceFinishes ==
    /\ dev_busy
    /\ dev_busy' = FALSE
    /\ UNCHANGED <<heldVars, dev_valve, dev_velocity, dev_initialized,
                   dev_error, faults, frameVars, spc, sretry, iattempt, slog,
                   sresult, setupLeft>>
    /\ UNCHANGED notSetupVars

SetupNext ==
    \/ SetValvePositionCall
    \/ SetTopVelocityCall
    \/ InitializeCall
    \/ DefaultTopVelocitySetter
    \/ SetMicrostepMode
    \/ SetValvePositionExhausted
    \/ SetValvePositionRead
    \/ SetValvePositionSend
    \/ SetValvePositionWait
    \/ SetTopVelocityExhausted
    \/ SetTopVelocityRead
    \/ SetTopVelocitySend
    \/ InitializeExhausted
    \/ InitializeValveOnly
    \/ InitializeValveOnlyWait
    \/ InitializeNoValve
    \/ InitializeNoValveWait
    \/ InitializeVerify
    \/ SetupReturn
    \/ DeviceFinishes

\* Part 7: MultiPumpController.smart_initialize and parallel_transfer
\* (controller/multipump.py), with two pumps that carry out what they are sent
\* ------------------------------------------------------------------------

\* self.pumps: a dict, visited in the order of insertion
Pumps == {"A", "B"}
PumpOrder == <<"A", "B">>

\* total_volume (in mL) of each pump; number_of_steps is NumberOfSteps for both
PumpTotalVolumeMl(p) == IF p = "A" THEN 1 ELSE 2

PumpTotalVolume(p) == PumpTotalVolumeMl(p) * UnitsPerMl

\* steps_per_ml: int(number_of_steps / total_volume)
PumpStepsPerMl_Same(p) == NumberOfSteps

PumpStepsPerMl(p) == NumberOfSteps \div PumpTotalVolumeMl(p)

\* step_to_volume: step / float(self.steps_per_ml)
PumpStepToVolume(p, step) == (step * UnitsPerMl) \div PumpStepsPerMl(p)

\* remaining_volume: self.total_volume - self.current_volume
PumpRemainingVolume(p, current_steps) ==
    PumpTotalVolume(p) - PumpStepToVolume(p, current_steps)

\* pump.config.init_valve_pos, and the valves of a parallel_transfer
init_valve_pos == "Input"
from_valve == "Input"
to_valve == "Output"

\* calls made in one run, and rounds of one parallel_transfer that are
\* followed
MaxMultiCalls == 1
MaxRounds == 4

\* the volumes asked of a pump, 0 standing for a pump that is not in
\* pumps_and_volumes_dict
MultiVolumeArgs == {500, 1250, 2000, 2500}

NoVolumes == [p \in Pumps |-> 0]
NoMoves == [p \in Pumps |-> <<>>]

MultiQuiet ==
    /\ m_initialized = [p \in Pumps |-> TRUE]
    /\ m_busy = [p \in Pumps |-> FALSE]
    /\ m_valve = [p \in Pumps |-> "i"]
    /\ m_plunger = NoVolumes
    /\ m_target = NoVolumes
    /\ m_moved = NoMoves
    /\ mname = None
    /\ msecure = FALSE
    /\ mwait = FALSE
    /\ mwait_call = FALSE
    /\ mrequested = NoVolumes
    /\ mstart_init = [p \in Pumps |-> TRUE]
    /\ mstart_plunger = NoVolumes
    /\ mpc = "off"
    /\ mqueue = <<>>
    /\ mkeys = <<>>
    /\ mdict = NoVolumes
    /\ volume_to_transfer = NoVolumes
    /\ mremaining = NoVolumes
    /\ mrounds = 0
    /\ mlog = <<>>
    /\ mresult = None
    /\ multiLeft = 0

\* two pumps at rest, each initialized or not, its valve on the input or on
\* the output and its plunger at the bottom, half way or at the top
MultiInit ==
    /\ m_initialized \in [Pumps -> BOOLEAN]
    /\ m_busy = [p \in Pumps |-> FALSE]
    /\ m_valve \in [Pumps -> {"i", "o"}]
    /\ m_plunger \in [Pumps -> {0, NumberOfSteps \div 2, NumberOfSteps}]
    /\ m_target = m_plunger
    /\ m_moved = NoMoves
    /\ mname = None
    /\ msecure = FALSE
    /\ mwait = FALSE
    /\ mwait_call = FALSE
    /\ mrequested = NoVolumes
    /\ mstart_init = m_initialized
    /\ mstart_plunger = m_plunger
    /\ mpc = "idle"
    /\ mqueue = <<>>
    /\ mkeys = <<>>
    /\ mdict = NoVolumes
    /\ volume_to_transfer = NoVolumes
    /\ mremaining = NoVolumes
    /\ mrounds = 0
    /\ mlog = <<>>
    /\ mresult = None
    /\ multiLeft = MaxMultiCalls

\* what the controller does to pump p: the operation and its volume (for
\* is_initialized 1 or 0, the answer), whether the pump is idle and where its
\* plunger is at that moment, and the round of parallel_transfer
MultiEntry(p, operation, volume) ==
    <<p, operation, volume, ~m_busy[p], m_plunger[p], mrounds>>

\* smart_initialize(secure)
CallSmartInitialize ==
    /\ mpc = "idle"
    /\ multiLeft > 0
    /\ multiLeft' = multiLeft - 1
    /\ \E secure \in BOOLEAN : msecure' = secure
    /\ mname' = "smart_initialize"
    /\ mwait' = FALSE
    /\ mwait_call' = FALSE
    /\ mrequested' = NoVolumes
    /\ mstart_init' = m_initialized
    /\ mstart_plunger' = m_target
    /\ m_moved' = NoMoves
    /\ mpc' = "si_valve_only"
    /\ mqueue' = PumpOrder
    /\ mkeys' = <<>>
    /\ mdict' = NoVolumes
    /\ volume_to_transfer' = NoVolumes
    /\ mremaining' = NoVolumes
    /\ mrounds' = 0
    /\ mlog' = <<>>
    /\ mresult' = None
    /\ UNCHANGED <<m_initialized, m_busy, m_valve, m_plunger, m_target>>
    /\ UNCHANGED notMultiVars

\* parallel_transfer(pumps_and_volumes_dict, from_valve, to_valve,
\* secure=secure, wait=wait), the pumps being initialized
CallParallelTransfer ==
    /\ mpc = "idle"
    /\ multiLeft > 0
    /\ \A p \in Pumps : m_initialized[p]
    /\ multiLeft' = multiLeft - 1
    /\ \E secure \in BOOLEAN : msecure' = secure
    /\ \E wait \in BOOLEAN : mwait' = wait /\ mwait_call' = wait
    /\ \E pumps_and_volumes_dict \in [Pumps -> MultiVolumeArgs \cup {0}] :
        /\ pumps_and_volumes_dict # NoVolumes
        /\ mrequested' = pumps_and_volumes_dict
        /\ mdict' = pumps_and_volumes_dict
        /\ LET Named(p) == pumps_and_volumes_dict[p] # 0
           IN /\ mkeys' = SelectSeq(PumpOrder, Named)
              /\ mqueue' = SelectSeq(PumpOrder, Named)
    /\ mname' = "parallel_transfer"
    /\ mstart_init' = m_initialized
    /\ mstart_plunger' = m_target
    /\ m_moved' = NoMoves
    /\ mpc' = "pt_wait0"
    /\ volume_to_transfer' = NoVolumes
    /\ mremaining' = NoVolumes
    /\ mrounds' = 1
    /\ mlog' = <<>>
    /\ mresult' = None
    /\ UNCHANGED <<m_initialized, m_busy, m_valve, m_plunger, m_target>>
    /\ UNCHANGED notMultiVars

SiPositions ==
    {"si_valve_only", "si_wait1", "si_set_valve", "si_set_valve_wait",
     "si_wait2", "si_no_valve", "si_wait3", "si_params", "si_wait4"}

\* the pumps a loop starting at position at goes over
QueueAt(at) ==
    IF at \in {"done", "pt_recurse"} THEN <<>>
    ELSE IF at \in SiPositions THEN PumpOrder
    ELSE mkeys

\* the end of one iteration of a loop over pumps: the next pump, or the
\* statement after the loop
NextPump(loop, after) ==
    IF Len(mqueue) > 1
    THEN mpc' = loop /\ mqueue' = Tail(mqueue)
    ELSE mpc' = after /\ mqueue' = QueueAt(after)

\* is_initialized: what the pump answers
IsInitialized_Never(p) == FALSE

IsInitialized(p) == m_initialized[p]

\* the pump takes a command if it is idle and is busy until it has carried
\* it out; it ignores what it is sent while it is busy
Taken(p) == [m_busy EXCEPT ![p] = TRUE]

\* for pump in self.pumps.values(): if not pump.is_initialized():
\* pump.initialize_valve_only(wait=False)
SiValveOnly ==
    /\ mpc = "si_valve_only"
    /\ LET p == Head(mqueue)
       IN IF IsInitialized(p)
          THEN /\ mlog' = Append(mlog, MultiEntry(p, "is_initialized", 1))
               /\ UNCHANGED m_busy
          ELSE /\ mlog' = mlog \o <<MultiEntry(p, "is_initialized", 0),
                                    MultiEntry(p, "initialize_valve_only", 0)>>
               /\ m_busy' = Taken(p)
    /\ NextPump("si_valve_only", "si_wait1")
    /\ UNCHANGED <<m_initialized, m_valve, m_plunger, m_target, m_moved,
                   mcallVars, mkeys, mdict, volume_to_transfer, mremaining,
                   mrounds, mresult, multiLeft>>
    /\ UNCHANGED notMultiVars

\* wait_until_idle returns when the pump no longer answers that it is busy
ObservedIdle_Always(p) == TRUE

ObservedIdle(p) == ~m_busy[p]

WaitPositions ==
    {"si_wait1", "si_wait2", "si_wait3", "si_wait4", "pt_wait0", "pt_wait1",
     "pt_wait2"}

\* the statement after each wait for the pumps
AfterWait(at) ==
    CASE at = "si_wait1" -> "si_set_valve"
      [] at = "si_wait2" -> "si_no_valve"
      [] at = "si_wait3" -> "si_params"
      [] at = "pt_wait0" -> "pt_pump"
      [] at = "pt_wait1" -> "pt_deliver"
      [] OTHER -> "done"

\* wait_until_all_pumps_idle, and apply_command_to_pumps(names,
\* "wait_until_idle"): one pump after the other is waited for
WaitUntilPumpsIdle ==
    /\ mpc \in WaitPositions
    /\ ObservedIdle(Head(mqueue))
    /\ mlog' = Append(mlog, MultiEntry(Head(mqueue), "wait_until_idle", 0))
    /\ NextPump(mpc, AfterWait(mpc))
    /\ mresult' = IF Len(mqueue) = 1 /\ mpc = "pt_wait2" THEN "True"
                  ELSE mresult
    /\ UNCHANGED <<mdevVars, mcallVars, mkeys, mdict, volume_to_transfer,
                   mremaining, mrounds, multiLeft>>
    /\ UNCHANGED notMultiVars

\* set_valve_position reads the valve position of pump p and compares it
\* with the requested one
ValveInPosition(p, valve_position) ==
    m_valve[p] = ValvePosition_value(valve_position)

\* ... and sends the valve command if they differ: the pump turns its valve
TurnValve(p, valve_position) ==
    IF m_busy[p]
    THEN UNCHANGED <<m_valve, m_busy>>
    ELSE /\ m_valve' = [m_valve EXCEPT
                        ![p] = ValvePosition_value(valve_position)]
         /\ m_busy' = Taken(p)

\* for pump in self.pumps.values(): if not pump.is_initialized():
\* pump.set_valve_position(pump.config.init_valve_pos, secure=secure);
\* without secure set_valve_position returns once the command is sent
SiSetValve ==
    /\ mpc = "si_set_valve"
    /\ LET p == Head(mqueue)
       IN IF IsInitialized(p)
          THEN /\ mlog' = Append(mlog, MultiEntry(p, "is_initialized", 1))
               /\ NextPump("si_set_valve", "si_wait2")
               /\ UNCHANGED <<m_valve, m_busy>>
          ELSE /\ mlog' = mlog \o <<MultiEntry(p, "is_initialized", 0),
                                    MultiEntry(p, "set_valve_position", 0)>>
               /\ IF ValveInPosition(p, init_valve_pos)
                  THEN /\ NextPump("si_set_valve", "si_wait2")
                       /\ UNCHANGED <<m_valve, m_busy>>
                  ELSE /\ TurnValve(p, init_valve_pos)
                       /\ IF ValveUnchecked(msecure)
                          THEN NextPump("si_set_valve", "si_wait2")
                          ELSE /\ mpc' = "si_set_valve_wait"
                               /\ UNCHANGED mqueue
    /\ UNCHANGED <<m_initialized, m_plunger, m_target, m_moved, mcallVars,
                   mkeys, mdict, volume_to_transfer, mremaining, mrounds,
                   mresult, multiLeft>>
    /\ UNCHANGED notMultiVars

\* ... with secure: wait_until_idle(), then the position is read again; if
\* it is the requested one set_valve_position returns, else the command is
\* sent again
SiSetValveWait ==
    /\ mpc = "si_set_valve_wait"
    /\ ObservedIdle(Head(mqueue))
    /\ IF ValveInPosition(Head(mqueue), init_valve_pos)
       THEN /\ NextPump("si_set_valve", "si_wait2")
            /\ UNCHANGED <<m_valve, m_busy>>
       ELSE /\ TurnValve(Head(mqueue), init_valve_pos)
            /\ UNCHANGED <<mpc, mqueue>>
    /\ UNCHANGED <<m_initialized, m_plunger, m_target, m_moved, mcallVars,
                   mkeys, mdict, volume_to_transfer, mremaining, mrounds,
                   mlog, mresult, multiLeft>>
    /\ UNCHANGED notMultiVars

\* for pump in self.pumps.values(): if not pump.is_initialized():
\* pump.initialize_no_valve(wait=False); the pump drives its plunger to the
\* bottom and answers from then on that it is initialized
SiNoValve ==
    /\ mpc = "si_no_valve"
    /\ LET p == Head(mqueue)
       IN IF IsInitialized(p)
          THEN /\ mlog' = Append(mlog, MultiEntry(p, "is_initialized", 1))
               /\ UNCHANGED <<m_initialized, m_busy, m_target>>
          ELSE /\ mlog' = mlog \o <<MultiEntry(p, "is_initialized", 0),
                                    MultiEntry(p, "initialize_no_valve", 0)>>
               /\ IF m_busy[p]
                  THEN UNCHANGED <<m_initialized, m_busy, m_target>>
                  ELSE /\ m_initialized' = [m_initialized EXCEPT ![p] = TRUE]
                       /\ m_busy' = Taken(p)
                       /\ m_target' = [m_target EXCEPT ![p] = 0]
    /\ NextPump("si_no_valve", "si_wait3")
    /\ UNCHANGED <<m_valve, m_plunger, m_moved, mcallVars, mkeys, mdict,
                   volume_to_transfer, mremaining, mrounds, mresult,
                   multiLeft>>
    /\ UNCHANGED notMultiVars

\* apply_command_to_all_pumps('init_all_pump_parameters', secure=secure):
\* set_microstep_mode, wait_until_idle, set_top_velocity, wait_until_idle
SiParams ==
    /\ mpc = "si_params"
    /\ ObservedIdle(Head(mqueue))
    /\ mlog' = Append(mlog,
                      MultiEntry(Head(mqueue), "init_all_pump_parameters", 0))
    /\ NextPump("si_params", "si_wait4")
    /\ UNCHANGED <<mdevVars, mcallVars, mkeys, mdict, volume_to_transfer,
                   mremaining, mrounds, mresult, multiLeft>>
    /\ UNCHANGED notMultiVars

\* volume_to_transfer[pump_name] = min(pump_target_volume,
\* pump.remaining_volume)
VolumeToTransfer_Requested(pump_target_volume, remaining) ==
    pump_target_volume

VolumeToTransfer(pump_target_volume, remaining) ==
    Min(pump_target_volume, remaining)

\* is_volume_pumpable and is_volume_deliverable of pump p
PumpIsVolumePumpable(p, volume_in_ml, current_steps) ==
    VolumeToStep(volume_in_ml, PumpStepsPerMl(p))
        <= NumberOfSteps - current_steps

PumpIsVolumeDeliverable(p, volume_in_ml, current_steps) ==
    VolumeToStep(volume_in_ml, PumpStepsPerMl(p)) <= current_steps

\* remaining_volume[pump_name] = pump_target_volume -
\* volume_to_transfer[pump_name], and the next pump
PtPumped(p, volume) ==
    /\ mremaining' = [mremaining EXCEPT ![p] = mdict[p] - volume]
    /\ NextPump("pt_pump", "pt_wait1")

\* volume_to_transfer[pump_name] = min(...); pump.pump(volume_in_ml=...,
\* from_valve=from_valve, wait=False, secure=secure) as far as its
\* set_valve_position: pump returns False if the volume is not pumpable
PtPump ==
    /\ mpc = "pt_pump"
    /\ LET p == Head(mqueue)
           volume == VolumeToTransfer(mdict[p],
                                      PumpRemainingVolume(p, m_plunger[p]))
       IN /\ volume_to_transfer' = [volume_to_transfer EXCEPT ![p] = volume]
          /\ mlog' = Append(mlog, MultiEntry(p, "pump", volume))
          /\ IF ~PumpIsVolumePumpable(p, volume, m_plunger[p])
             THEN /\ PtPumped(p, volume)
                  /\ UNCHANGED <<m_valve, m_busy>>
             ELSE /\ UNCHANGED <<mremaining, mqueue>>
                  /\ IF ValveInPosition(p, from_valve)
                     THEN /\ mpc' = "pt_pump_move"
                          /\ UNCHANGED <<m_valve, m_busy>>
                     ELSE /\ TurnValve(p, from_valve)
                          /\ mpc' = IF ValveUnchecked(msecure)
                                    THEN "pt_pump_move"
                                    ELSE "pt_pump_valve_wait"
    /\ UNCHANGED <<m_initialized, m_plunger, m_target, m_moved, mcallVars,
                   mkeys, mdict, mrounds, mresult, multiLeft>>
    /\ UNCHANGED notMultiVars

\* set_valve_position(from_valve) with secure: the pump is waited for and
\* its valve read again
PtPumpValveWait ==
    /\ mpc = "pt_pump_valve_wait"
    /\ ObservedIdle(Head(mqueue))
    /\ IF ValveInPosition(Head(mqueue), from_valve)
       THEN /\ mpc' = "pt_pump_move"
            /\ UNCHANGED <<m_valve, m_busy>>
       ELSE /\ TurnValve(Head(mqueue), from_valve)
            /\ UNCHANGED mpc
    /\ UNCHANGED <<m_initialized, m_plunger, m_target, m_moved, mcallVars,
                   mqueue, mkeys, mdict, volume_to_transfer, mremaining,
                   mrounds, mlog, mresult, multiLeft>>
    /\ UNCHANGED notMultiVars

\* pickup_move(volume_in_ml): the pump draws its plunger up by the steps it
\* is sent
PtPumpMove ==
    /\ mpc = "pt_pump_move"
    /\ LET p == Head(mqueue)
           steps == VolumeToStep(volume_to_transfer[p], PumpStepsPerMl(p))
       IN /\ mlog' = Append(mlog, MultiEntry(p, "pickup_move", steps))
          /\ IF m_busy[p]
             THEN UNCHANGED <<m_busy, m_target, m_moved>>
             ELSE /\ m_busy' = Taken(p)
                  /\ m_target' = [m_target EXCEPT ![p] = m_plunger[p] + steps]
                  /\ m_moved' = [m_moved EXCEPT ![p] = Append(@, steps)]
          /\ PtPumped(p, volume_to_transfer[p])
    /\ UNCHANGED <<m_initialized, m_valve, m_plunger, mcallVars, mkeys,
                   mdict, volume_to_transfer, mrounds, mresult, multiLeft>>
    /\ UNCHANGED notMultiVars

\* pump.deliver(volume_in_ml=volume_to_deliver, wait=False,
\* to_valve=to_valve) as far as its set_valve_position: deliver returns
\* False if the volume is not deliverable and True if it is 0
PtDeliver ==
    /\ mpc = "pt_deliver"
    /\ LET p == Head(mqueue)
           volume_to_deliver == volume_to_transfer[p]
       IN /\ mlog' = Append(mlog, MultiEntry(p, "deliver", volume_to_deliver))
          /\ IF ~PumpIsVolumeDeliverable(p, volume_to_deliver, m_plunger[p])
                \/ DeliverNothing(volume_to_deliver)
             THEN /\ NextPump("pt_deliver", "pt_recurse")
                  /\ UNCHANGED <<m_valve, m_busy>>
             ELSE /\ UNCHANGED mqueue
                  /\ IF ValveInPosition(p, to_valve)
                     THEN /\ mpc' = "pt_deliver_move"
                          /\ UNCHANGED <<m_valve, m_busy>>
                     ELSE /\ TurnValve(p, to_valve)
                          /\ mpc' = "pt_deliver_valve_wait"
    /\ UNCHANGED <<m_initialized, m_plunger, m_target, m_moved, mcallVars,
                   mkeys, mdict, volume_to_transfer, mremaining, mrounds,
                   mresult, multiLeft>>
    /\ UNCHANGED notMultiVars

\* set_valve_position(to_valve), secure by default: the pump is waited for
\* and its valve read again
PtDeliverValveWait ==
    /\ mpc = "pt_deliver_valve_wait"
    /\ ObservedIdle(Head(mqueue))
    /\ IF ValveInPosition(Head(mqueue), to_valve)
       THEN /\ mpc' = "pt_deliver_move"
            /\ UNCHANGED <<m_valve, m_busy>>
       ELSE /\ TurnValve(Head(mqueue), to_valve)
            /\ UNCHANGED mpc
    /\ UNCHANGED <<m_initialized, m_plunger, m_target, m_moved, mcallVars,
                   mqueue, mkeys, mdict, volume_to_transfer, mremaining,
                   mrounds, mlog, mresult, multiLeft>>
    /\ UNCHANGED notMultiVars

\* deliver_move(volume_in_ml): the pump drives its plunger down by the steps
\* it is sent
PtDeliverMove ==
    /\ mpc = "pt_deliver_move"
    /\ LET p == Head(mqueue)
           steps == VolumeToStep(volume_to_transfer[p], PumpStepsPerMl(p))
       IN /\ mlog' = Append(mlog, MultiEntry(p, "deliver_move", steps))
          /\ IF m_busy[p]
             THEN UNCHANGED <<m_busy, m_target>>
             ELSE /\ m_busy' = Taken(p)
                  /\ m_target' = [m_target EXCEPT ![p] = m_plunger[p] - steps]
    /\ NextPump("pt_deliver", "pt_recurse")
    /\ UNCHANGED <<m_initialized, m_valve, m_plunger, m_moved, mcallVars,
                   mkeys, mdict, volume_to_transfer, mremaining, mrounds,
                   mresult, multiLeft>>
    /\ UNCHANGED notMultiVars

\* left_to_pump = {pump: volume for pump, volume in remaining_volume.items()
\* if volume > 0}
LeftToPump(keys, remaining) ==
    LET Short(p) == remaining[p] > 0
    IN SelectSeq(keys, Short)

\* if len(left_to_pump) > 0: self.parallel_transfer(left_to_pump, from_valve,
\* to_valve, speed_in, speed_out, secure), whose wait is False; elif wait is
\* True: the pumps are waited for; return True
PtRecurse ==
    /\ mpc = "pt_recurse"
    /\ LET left_to_pump == LeftToPump(mkeys, mremaining)
       IN IF Len(left_to_pump) > 0
          THEN /\ mrounds < MaxRounds
               /\ mrounds' = mrounds + 1
               /\ mkeys' = left_to_pump
               /\ mqueue' = left_to_pump
               /\ mdict' = [p \in Pumps |->
                               IF mremaining[p] > 0 THEN mremaining[p] ELSE 0]
               /\ mwait' = FALSE
               /\ mpc' = "pt_wait0"
               /\ volume_to_transfer' = NoVolumes
               /\ mremaining' = NoVolumes
               /\ UNCHANGED mresult
          ELSE /\ IF mwait
                  THEN mpc' = "pt_wait2" /\ mqueue' = mkeys
                       /\ UNCHANGED mresult
                  ELSE mpc' = "done" /\ mqueue' = <<>> /\ mresult' = "True"
               /\ UNCHANGED <<mrounds, mkeys, mdict, mwait,
                              volume_to_transfer, mremaining>>
    /\ UNCHANGED <<mdevVars, mname, msecure, mwait_call, mrequested,
                   mstart_init, mstart_plunger, mlog, multiLeft>>
    /\ UNCHANGED notMultiVars

\* the call has returned
MultiReturn ==
    /\ mpc = "done"
    /\ mpc' = "idle"
    /\ mname' = None
    /\ msecure' = FALSE
    /\ mwait' = FALSE
    /\ mwait_call' = FALSE
    /\ mrequested' = NoVolumes
    /\ mstart_init' = m_initialized
    /\ mstart_plunger' = m_target
    /\ m_moved' = NoMoves
    /\ mqueue' = <<>>
    /\ mkeys' = <<>>
    /\ mdict' = NoVolumes
    /\ volume_to_transfer' = NoVolumes
    /\ mremaining' = NoVolumes
    /\ mrounds' = 0
    /\ mlog' = <<>>
    /\ mresult' = None
    /\ UNCHANGED <<m_initialized, m_busy, m_valve, m_plunger, m_target,
                   multiLeft>>
    /\ UNCHANGED notMultiVars

\* a pump has carried out what it was sent
PumpFinishes ==
    /\ \E p \in Pumps :
        /\ m_busy[p]
        /\ m_busy' = [m_busy EXCEPT ![p] = FALSE]
        /\ m_plunger' = [m_plunger EXCEPT ![p] = m_target[p]]
    /\ UNCHANGED <<m_initialized, m_valve, m_target, m_moved, mcallVars,
                   mpc, mqueue, mkeys, mdict, volume_to_transfer, mremaining,
                   mrounds, mlog, mresult, multiLeft>>
    /\ UNCHANGED notMultiVars

MultiNext ==
    \/ CallSmartInitialize
    \/ CallParallelTransfer
    \/ SiValveOnly
    \/ WaitUntilPumpsIdle
    \/ SiSetValve
    \/ SiSetValveWait
    \/ SiNoValve
    \/ SiParams
    \/ PtPump
    \/ PtPumpValveWait
    \/ PtPumpMove
    \/ PtDeliver
    \/ PtDeliverValveWait
    \/ PtDeliverMove
    \/ PtRecurse
    \/ MultiReturn
    \/ PumpFinishes

\* ------------------------------------------------------------------------
\* Part 8: the conversions between volumes and steps
\* ------------------------------------------------------------------------

\* number_of_steps: that of VirtualController (controller/virtual.py:61),
\* eight times as many (micro step mode 2) and that of the pump of Part 5;
\* total_volume of the syringes, in units
ConvNumbersOfSteps == {NumberOfSteps, 3000, 24000}
ConvTotalVolumes == {50, 700, 1000, 2500}

\* steps_per_ml: int(self.number_of_steps / self.total_volume)
StepsPerMl(number_of_steps, total_volume_units) ==
    (number_of_steps * UnitsPerMl) \div total_volume_units

\* step_to_volume: step / float(self.steps_per_ml), as the fraction of units
\* <<numerator, denominator>>
StepToVolume(step, spm) == <<step * UnitsPerMl, spm>>

Abs(x) == IF x < 0 THEN 0 - x ELSE x

ConvQuiet ==
    /\ cv_number_of_steps = 0
    /\ cv_total_volume = 0
    /\ cv_volume = 0
    /\ cv_step = 0
    /\ cv_back = <<0, 1>>
    /\ cvpc = "none"

\* a pump whose steps_per_ml is not 0 (step_to_volume divides by it)
ConvInit ==
    /\ cv_number_of_steps \in ConvNumbersOfSteps
    /\ cv_total_volume \in ConvTotalVolumes
    /\ StepsPerMl(cv_number_of_steps, cv_total_volume) >= 1
    /\ cv_volume = 0
    /\ cv_step = 0
    /\ cv_back = <<0, 1>>
    /\ cvpc = "start"

\* volume_to_step(volume_in_ml) for a volume of 0 to total_volume
ConvVolumeToStep ==
    /\ cvpc = "start"
    /\ \E volume_in_ml \in 0..cv_total_volume :
          /\ cv_volume' = volume_in_ml
          /\ cv_step' = VolumeToStep(volume_in_ml,
                             StepsPerMl(cv_number_of_steps, cv_total_volume))
    /\ cvpc' = "stepped"
    /\ UNCHANGED <<cv_number_of_steps, cv_total_volume, cv_back>>
    /\ UNCHANGED <<forgeVars, frameExtractVars, getValveVars, notFnVars>>

\* step_to_volume of the steps volume_to_step returned
ConvStepToVolume ==
    /\ cvpc = "stepped"
    /\ cv_back' = StepToVolume(cv_step,
                       StepsPerMl(cv_number_of_steps, cv_total_volume))
    /\ cvpc' = "back"
    /\ UNCHANGED <<cv_number_of_steps, cv_total_volume, cv_volume, cv_step>>
    /\ UNCHANGED <<forgeVars, frameExtractVars, getValveVars, notFnVars>>

ConvNext ==
    \/ ConvVolumeToStep
    \/ ConvStepToVolume

\* ------------------------------------------------------------------------
\* Part 9: forging a packet and encoding it
\* ------------------------------------------------------------------------

\* PumpCommand: the characters of the value of each member a forge function
\* names
PumpCommand ==
    [Execute |-> <<"R">>,
     InitValveRight |-> <<"Z">>,
     InitValveLeft |-> <<"Y">>,
     InitNoValve |-> <<"W">>,
     InitValveOnly |-> <<"w">>,
     MicroStepMode |-> <<"N">>,
     MoveAbsolute |-> <<"A">>,
     MovePickup |-> <<"P">>,
     MoveDeliver |-> <<"D">>,
     SetTopVelocity |-> <<"V">>,
     SetEEPROMPumpConfig |-> <<"U">>,
     SetEEPROMLowLevelParam |-> <<"u">>,
     Terminate |-> <<"T">>,
     SelectValveInput |-> <<"I">>,
     SelectValveOutput |-> <<"O">>,
     SelectValveBypass |-> <<"B">>,
     ReportStatus |-> <<"Q">>,
     ReportPlungerPosition |-> <<"?">>,
     ReportStartVelocity |-> <<"?", "1">>,
     ReportTopVelocity |-> <<"?", "2">>,
     ReportCutoffVelocity |-> <<"?", "3">>,
     ReportValvePosition |-> <<"?", "6">>,
     ReportIsInitialized |-> <<"?", "1", "9">>,
     ReportEEPROM |-> <<"?", "2", "7">>]

\* str(PumpCommand.SelectValveInput), which '{}{}'.format puts in the command
\* of forge_valve_6way_packet
PumpCommand_SelectValveInput_str ==
    <<"P", "u", "m", "p", "C", "o", "m", "m", "a", "n", "d", ".", "S", "e",
      "l", "e", "c", "t", "V", "a", "l", "v", "e", "I", "n", "p", "u", "t">>

\* str(n) of an integer n >= 0: its decimal digits
RECURSIVE IntStr(_)
IntStr(n) ==
    LET digit == <<"0", "1", "2", "3", "4", "5", "6", "7", "8", "9">>
    IN IF n < 10 THEN <<digit[n + 1]>>
       ELSE IntStr(n \div 10) \o <<digit[(n % 10) + 1]>>

\* DTCommand(command, operand): command.encode() and operand.encode()
DTCommand(command, operand) == <<command, operand>>

\* DTCommand.to_bytes: chain(self.command, self.operand)
DTCommand_to_bytes(dtcommand) == dtcommand[1] \o dtcommand[2]

\* DTInstructionPacket(address, dtcommands)
DTInstructionPacket(address, dtcommands) == <<address, dtcommands>>

\* the bytes of the commands, one after the other
RECURSIVE CommandBytes(_)
CommandBytes(dtcommands) ==
    IF dtcommands = <<>> THEN <<>>
    ELSE DTCommand_to_bytes(Head(dtcommands)) \o CommandBytes(Tail(dtcommands))

\* DTInstructionPacket.to_array: chain(DTStart, address, *commands, DTStop)
DTInstructionPacket_to_array(packet) ==
    <<DTStart>> \o <<packet[1]>> \o CommandBytes(packet[2]) \o <<DTStop>>

\* forge_packet: the commands, then Execute if execute
forge_packet_AlwaysExecute(address, dtcommands, execute) ==
    DTInstructionPacket(address,
        Append(dtcommands, DTCommand(PumpCommand.Execute, <<>>)))

forge_packet(address, dtcommands, execute) ==
    DTInstructionPacket(address,
        IF execute
        THEN Append(dtcommands, DTCommand(PumpCommand.Execute, <<>>))
        ELSE dtcommands)

\* the forge functions of PumpProtocol that make a command of a PumpCommand
\* and str(operand_value)
ForgeWithOperand ==
    [forge_initialize_valve_right_packet |-> "InitValveRight",
     forge_initialize_valve_left_packet |-> "InitValveLeft",
     forge_initialize_no_valve_packet |-> "InitNoValve",
     forge_microstep_mode_packet |-> "MicroStepMode",
     forge_move_to_packet |-> "MoveAbsolute",
     forge_pump_packet |-> "MovePickup",
     forge_deliver_packet |-> "MoveDeliver",
     forge_top_velocity_packet |-> "SetTopVelocity",
     forge_eeprom_config_packet |-> "SetEEPROMPumpConfig"]

\* ... of a PumpCommand alone (forge_valve_extra_packet names
\* SelectValveBypass)
ForgeBare ==
    [forge_valve_input_packet |-> "SelectValveInput",
     forge_valve_output_packet |-> "SelectValveOutput",
     forge_valve_bypass_packet |-> "SelectValveBypass",
     forge_valve_extra_packet |-> "SelectValveBypass",
     forge_report_status_packet |-> "ReportStatus",
     forge_report_plunger_position_packet |-> "ReportPlungerPosition",
     forge_report_start_velocity_packet |-> "ReportStartVelocity",
     forge_report_peak_velocity_packet |-> "ReportTopVelocity",
     forge_report_cutoff_velocity_packet |-> "ReportCutoffVelocity",
     forge_report_valve_position_packet |-> "ReportValvePosition",
     forge_report_initialized_packet |-> "ReportIsInitialized",
     forge_report_eeprom_packet |-> "ReportEEPROM",
     forge_terminate_packet |-> "Terminate"]

\* ... of a string operand
ForgeWithString ==
    {"forge_initialize_valve_only_packet",
     "forge_eeprom_lowlevel_config_packet", "forge_valve_6way_packet"}

ForgeNames == DOMAIN ForgeWithOperand \cup DOMAIN ForgeBare \cup ForgeWithString

\* the forge functions that call forge_packet with execute=False
ForgeNoExecute ==
    {"forge_eeprom_config_packet", "forge_eeprom_lowlevel_config_packet"}

\* the arguments the forge functions are called with: operand_value,
\* sub_command, and the strings (operand_string, the operand_value of the
\* low level parameter, valve_position); addresses of the protocol
ForgeOperandValues == {0, 2, 20, 1500}
ForgeStrings ==
    {<<"1">>, <<"R">>, <<"0", ",", "0">>,
     <<"p", "y", "c", "o", "n", "t", "1">>}
ForgeAddresses == {"1", "2", "_"}

\* the exception a forge function raises before forge_packet is reached:
\* the microstep operand outside 0..2, and None.encode() in DTCommand for
\* forge_initialize_valve_only_packet called without an operand string
ForgeRaises(name, operand_value, has_string) ==
    IF name = "forge_microstep_mode_packet" /\ operand_value \notin 0..2
    THEN "ValueError"
    ELSE IF name = "forge_initialize_valve_only_packet" /\ ~has_string
    THEN "AttributeError"
    ELSE None

\* the command a forge function hands to forge_packet
ForgeCommand(name, operand_value, string) ==
    IF name \in DOMAIN ForgeWithOperand
    THEN DTCommand(PumpCommand[ForgeWithOperand[name]], IntStr(operand_value))
    ELSE IF name \in DOMAIN ForgeBare
    THEN DTCommand(PumpCommand[ForgeBare[name]], <<>>)
    ELSE IF name = "forge_initialize_valve_only_packet"
    THEN DTCommand(PumpCommand.InitValveOnly, string)
    ELSE IF name = "forge_eeprom_lowlevel_config_packet"
    THEN DTCommand(PumpCommand.SetEEPROMLowLevelParam,
                   IntStr(operand_value) \o <<"_">> \o string)
    ELSE DTCommand(PumpCommand_SelectValveInput_str \o string, <<>>)

ForgeQuiet ==
    /\ fg_name = None
    /\ fg_address = None
    /\ fg_given = <<>>
    /\ fg_execute = FALSE
    /\ fg_packet = <<None, <<>>>>
    /\ fg_bytes = <<>>
    /\ fg_raised = None
    /\ fgpc = "none"

ForgeInit ==
    /\ fg_name = None
    /\ fg_address \in ForgeAddresses
    /\ fg_given = <<>>
    /\ fg_execute = FALSE
    /\ fg_packet = <<None, <<>>>>
    /\ fg_bytes = <<>>
    /\ fg_raised = None
    /\ fgpc = "start"

\* one of the forge functions is called
ForgeCall ==
    /\ fgpc = "start"
    /\ \E name \in ForgeNames, operand_value \in ForgeOperandValues,
          string \in ForgeStrings, has_string \in BOOLEAN :
          LET exc == ForgeRaises(name, operand_value, has_string)
              given == <<ForgeCommand(name, operand_value, string)>>
              execute == name \notin ForgeNoExecute
          IN /\ fg_name' = name
             /\ fg_raised' = exc
             /\ IF exc # None
                THEN /\ fgpc' = "raised"
                     /\ UNCHANGED <<fg_given, fg_execute, fg_packet>>
                ELSE /\ fgpc' = "forged"
                     /\ fg_given' = given
                     /\ fg_execute' = execute
                     /\ fg_packet' = forge_packet(fg_address, given, execute)
    /\ UNCHANGED <<fg_address, fg_bytes>>
    /\ UNCHANGED <<convVars, frameExtractVars, getValveVars, notFnVars>>

\* forge_packet is called with no, one or two commands and either execute
ForgePacketCall ==
    /\ fgpc = "start"
    /\ \E names \in {<<>>, <<"forge_pump_packet">>,
                      <<"forge_top_velocity_packet", "forge_deliver_packet">>},
          operand_value \in ForgeOperandValues, execute \in BOOLEAN :
          LET given == [i \in 1..Len(names) |->
                           ForgeCommand(names[i], operand_value, <<>>)]
          IN /\ fg_given' = given
             /\ fg_execute' = execute
             /\ fg_packet' = forge_packet(fg_address, given, execute)
    /\ fg_name' = "forge_packet"
    /\ fgpc' = "forged"
    /\ UNCHANGED <<fg_address, fg_bytes, fg_raised>>
    /\ UNCHANGED <<convVars, frameExtractVars, getValveVars, notFnVars>>

\* to_bytes of the forged packet, as the transports send it
ForgeEncode ==
    /\ fgpc = "forged"
    /\ fg_bytes' = DTInstructionPacket_to_array(fg_packet)
    /\ fgpc' = "encoded"
    /\ UNCHANGED <<fg_name, fg_address, fg_given, fg_execute, fg_packet,
                  fg_raised>>
    /\ UNCHANGED <<convVars, frameExtractVars, getValveVars, notFnVars>>

ForgeNext ==
    \/ ForgeCall
    \/ ForgePacketCall
    \/ ForgeEncode

\* ------------------------------------------------------------------------
\* Part 10: SocketIO._recv_status on a stream of bytes split into chunks
\* ------------------------------------------------------------------------

\* longest stream of bytes, and the bytes it is made of: the delimiters, the
\* master address and another address
MaxStream == 6
StreamBytes == {DTStart, DTStop, AddressMaster, "2"}

Streams == UNION {[1..n -> StreamBytes] : n \in 0..MaxStream}

\* bytes as the elements of the buffers of Part 3, which carry a character
AsBuffer(bytes) == [i \in 1..Len(bytes) |-> [c |-> bytes[i]]]

\* the while loop of _recv_status: the buffer it leaves, the frames it
\* extracted and how it ended: "none" (no further frame), "response" (a
\* master-addressed status is returned), "raise" (DTStatus raised)
RECURSIVE RecvStatusFrames(_, _)
RecvStatusFrames(buf, out) ==
    LET e == ExtractNextResponseFromBuffer(AsBuffer(buf))
    IN IF ~e.found
       THEN <<Chars(e.buf), out, "none">>
       ELSE LET st == DTStatus(Chars(e.msg))
                frames == Append(out, Chars(e.msg))
            IN IF st.err # None
               THEN <<Chars(e.buf), frames, "raise">>
               ELSE IF st.address = AddressMaster
               THEN <<Chars(e.buf), frames, "response">>
               ELSE RecvStatusFrames(Chars(e.buf), frames)

FrameQuiet ==
    /\ fr_all = <<>>
    /\ fr_rest = <<>>
    /\ fr_buf = <<>>
    /\ fr_out = <<>>
    /\ fr_last = "quiet"
    /\ fr_chunks = 0

FrameInit ==
    /\ fr_all \in Streams
    /\ fr_rest = fr_all
    /\ fr_buf = <<>>
    /\ fr_out = <<>>
    /\ fr_last = "none"
    /\ fr_chunks = 0

\* _recv_status when recv returns the next n bytes of the stream:
\* self._buf += data, then the extraction loop
FrameRecvStatus ==
    /\ fr_last # "quiet"
    /\ fr_rest # <<>>
    /\ \E n \in 1..Len(fr_rest) :
          LET data == SubSeq(fr_rest, 1, n)
              r == RecvStatusFrames(fr_buf \o data, fr_out)
          IN /\ fr_rest' = SubSeq(fr_rest, n + 1, Len(fr_rest))
             /\ fr_buf' = r[1]
             /\ fr_out' = r[2]
             /\ fr_last' = r[3]
    /\ fr_chunks' = fr_chunks + 1
    /\ UNCHANGED fr_all
    /\ UNCHANGED <<convVars, forgeVars, getValveVars, notFnVars>>

FrameNext == FrameRecvStatus

\* ------------------------------------------------------------------------
\* Part 11: PumpController.get_valve_position
\* ------------------------------------------------------------------------

\* the raw positions a report-valve-position query is answered with: known
\* ones, a character that is no position, an empty data field
RawValveReplies == {"i", "o", "6", "x", ""}

\* the exceptions _write_and_read_from_pump ends with or lets through
QueryExceptions == {"MaxRetriesExceededError", "IndexError", "EOFError"}

\* the max_repeat arguments: none, the small ones, the default
GetValveMaxRepeats == (0..MaxRepeatOp) \cup {MAX_REPEAT_OPERATION}

GetValveQuiet ==
    /\ gv_max_repeat = 0
    /\ gv_queries = 0
    /\ gv_replies = <<>>
    /\ gv_kind = None
    /\ gv_result = None
    /\ gvpc = "none"

\* get_valve_position(max_repeat) is called
GetValveInit ==
    /\ gv_max_repeat \in GetValveMaxRepeats
    /\ gv_queries = 0
    /\ gv_replies = <<>>
    /\ gv_kind = None
    /\ gv_result = None
    /\ gvpc = "loop"

\* one iteration: get_raw_valve_position() returns the data of the reply,
\* try_decode, return the position if it is one
GetValveQuery ==
    /\ gvpc = "loop"
    /\ RangeHasNext(gv_queries, gv_max_repeat)
    /\ gv_queries' = gv_queries + 1
    /\ \E raw_valve_position \in RawValveReplies :
          LET valve_position == ValvePosition_try_decode(raw_valve_position)
          IN /\ gv_replies' = Append(gv_replies, raw_valve_position)
             /\ IF valve_position # None
                THEN /\ gv_kind' = "return"
                     /\ gv_result' = valve_position
                     /\ gvpc' = "done"
                ELSE UNCHANGED <<gv_kind, gv_result, gvpc>>
    /\ UNCHANGED gv_max_repeat
    /\ UNCHANGED <<convVars, forgeVars, frameExtractVars, notFnVars>>

\* one iteration whose get_raw_valve_position() raises: the exception leaves
\* get_valve_position
GetValveQueryRaises ==
    /\ gvpc = "loop"
    /\ RangeHasNext(gv_queries, gv_max_repeat)
    /\ gv_queries' = gv_queries + 1
    /\ \E exc \in QueryExceptions : gv_result' = exc
    /\ gv_kind' = "raise"
    /\ gvpc' = "done"
    /\ UNCHANGED <<gv_max_repeat, gv_replies>>
    /\ UNCHANGED <<convVars, forgeVars, frameExtractVars, notFnVars>>

\* the loop is over: raise ValueError
GetValveExhausted ==
    /\ gvpc = "loop"
    /\ ~RangeHasNext(gv_queries, gv_max_repeat)
    /\ gv_kind' = "raise"
    /\ gv_result' = "ValueError"
    /\ gvpc' = "done"
    /\ UNCHANGED <<gv_max_repeat, gv_queries, gv_replies>>
    /\ UNCHANGED <<convVars, forgeVars, frameExtractVars, notFnVars>>

GetValveNext ==
    \/ GetValveQuery
    \/ GetValveQueryRaises
    \/ GetValveExhausted

FnQuiet == ConvQuiet /\ ForgeQuiet /\ FrameQuiet /\ GetValveQuiet

SpecCtlInit ==
    CtlInit /\ IOQuiet /\ DTQuiet /\ PumpQuiet /\ SetupQuiet /\ MultiQuiet
    /\ FnQuiet

SpecIOInit ==
    CtlInit /\ IOInit /\ DTQuiet /\ PumpQuiet /\ SetupQuiet /\ MultiQuiet
    /\ FnQuiet

SpecDTInit ==
    CtlInit /\ IOQuiet /\ DTInit /\ PumpQuiet /\ SetupQuiet /\ MultiQuiet
    /\ FnQuiet

SpecPumpInit ==
    CtlInit /\ IOQuiet /\ DTQuiet /\ PumpInit /\ SetupQuiet /\ MultiQuiet
    /\ FnQuiet

SpecSetupInit ==
    CtlInit /\ IOQuiet /\ DTQuiet /\ PumpQuiet /\ SetupInit /\ MultiQuiet
    /\ FnQuiet

\* the settings and initialize against a pump and a line that may fail
SpecSetup == SpecSetupInit /\ [][SetupNext]_vars

SpecMultiInit ==
    CtlInit /\ IOQuiet /\ DTQuiet /\ PumpQuiet /\ SetupQuiet /\ MultiInit
    /\ FnQuiet

SpecMulti == SpecMultiInit /\ [][MultiNext]_vars

SpecConvInit ==
    CtlInit /\ IOQuiet /\ DTQuiet /\ PumpQuiet /\ SetupQuiet /\ MultiQuiet
    /\ ConvInit /\ ForgeQuiet /\ FrameQuiet /\ GetValveQuiet

SpecForgeInit ==
    CtlInit /\ IOQuiet /\ DTQuiet /\ PumpQuiet /\ SetupQuiet /\ MultiQuiet
    /\ ConvQuiet /\ ForgeInit /\ FrameQuiet /\ GetValveQuiet

\* every forge function on the arguments of ForgeCall and ForgePacketCall
SpecForge == SpecForgeInit /\ [][ForgeNext]_vars

SpecFrameInit ==
    CtlInit /\ IOQuiet /\ DTQuiet /\ PumpQuiet /\ SetupQuiet /\ MultiQuiet
    /\ ConvQuiet /\ ForgeQuiet /\ FrameInit /\ GetValveQuiet

\* every stream of Streams, received in every way it can be split
SpecFrame == SpecFrameInit /\ [][FrameNext]_vars

SpecGetValveInit ==
    CtlInit /\ IOQuiet /\ DTQuiet /\ PumpQuiet /\ SetupQuiet /\ MultiQuiet
    /\ ConvQuiet /\ ForgeQuiet /\ FrameQuiet /\ GetValveInit

\* get_valve_position against every run of replies and failures
SpecGetValve == SpecGetValveInit /\ [][GetValveNext]_vars

\* the round trip of every volume of every pump of ConvInit
SpecConv == SpecConvInit /\ [][ConvNext]_vars

\* the decoder on every byte string of DTFrames
SpecDT == SpecDTInit /\ [][DTNext]_vars

\* the volume operations against a pump that answers every packet
SpecPump == SpecPumpInit /\ [][PumpNext]_vars

\* the controller against a transport stub
SpecCtl == SpecCtlInit /\ [][CtlNext]_vars

\* the transports, their callers and the devices
SpecIO == SpecIOInit /\ [][IONext]_vars

\* ... where every thread inside a call keeps being scheduled
FairSpecIO == SpecIO /\ \A t \in Threads : WF_vars(ThreadStep(t))

\* ------------------------------------------------------------------------
\* Properties of the controller (SpecCtl)
\* ------------------------------------------------------------------------

C2_ErrorKindOf ==
    [ch \in {"a", "A", "b", "B", "c", "C", "f", "F", "g", "G", "i", "I",
              "j", "J", "k", "K"} |->
        CASE ch \in {"a", "A"} -> "InitFailure"
          [] ch \in {"b", "B"} -> "InvalidCommand"
          [] ch \in {"c", "C"} -> "InvalidOperand"
          [] ch \in {"f", "F"} -> "EEPROMFailure"
          [] ch \in {"g", "G"} -> "NotInitialized"
          [] ch \in {"i", "I"} -> "PlungerOverload"
          [] ch \in {"j", "J"} -> "ValveOverload"
          [] ch \in {"k", "K"} -> "PlungerStuck"]

\* C2: when is_idle has ended after a report-status reply, the replying
\* exchange was the last one sent (every earlier attempt had failed, no
\* attempt followed the reply); a reply with one of the 16 error characters
\* made is_idle raise PumpHardwareError with that error kind and the pump
\* name, never MaxRetriesExceededError; the idle Ok character made it return
\* True and the busy Ok character False.
C2_IsIdleHardwareError ==
    (cpc = "done" /\ cop.op = "is_idle" /\ resp # NoStatus) =>
        /\ nSent = nTimeout + nDecode + 1
        /\ resp.status \in DOMAIN C2_ErrorKindOf =>
              outcome = [kind |-> "raise", exc |-> "PumpHardwareError",
                         status_code |-> C2_ErrorKindOf[resp.status],
                         pump_name |-> PumpName]
        /\ resp.status = Grave =>
              outcome.kind = "return" /\ outcome.value = TRUE
        /\ resp.status = "@" =>
              outcome.kind = "return" /\ outcome.value = FALSE

C2_Witness ==
    /\ cpc = "done"
    /\ cop.op = "is_idle"
    /\ resp.status = "K"
    /\ nTimeout = 1
    /\ nDecode = 1
    /\ nSent = 3
    /\ outcome.kind = "raise"
    /\ outcome.exc = "PumpHardwareError"
    /\ outcome.status_code = "PlungerStuck"

\* C12: in _write_and_read_from_pump a DTStatusDecodeError of the transport
\* counts like a PumpIOTimeOutError: each of the two uses up exactly one of
\* the max_repeat attempts, neither ends the call while attempts remain (the
\* call raises nothing but MaxRetriesExceededError, and only after max_repeat
\* failed attempts), and the first attempt that returns a status is the last
\* send: the call returns that status.
C12_DecodeErrorRetried ==
    (cop.op = "write_and_read_from_pump") =>
        /\ retry = nTimeout + nDecode
        /\ retry <= cop.max_repeat
        /\ nSent = retry + (IF resp = NoStatus THEN 0 ELSE 1)
        /\ (cpc = "war_loop" /\ retry < cop.max_repeat) =>
              ENABLED (WarAttemptTimeout \/ WarAttemptDecodeError
                          \/ WarAttemptReply)
        /\ (cpc = "done" /\ resp = NoStatus) =>
              /\ outcome = [kind |-> "raise",
                            exc |-> "MaxRetriesExceededError"]
              /\ nSent = cop.max_repeat
        /\ (cpc = "done" /\ resp # NoStatus) =>
              outcome = [kind |-> "return", value |-> resp]

C12_Witness ==
    /\ cpc = "done"
    /\ cop.op = "write_and_read_from_pump"
    /\ cop.max_repeat = 3
    /\ nDecode = 1
    /\ nTimeout = 1
    /\ nSent = 3
    /\ outcome.kind = "return"
    /\ outcome.value = resp

\* ------------------------------------------------------------------------
\* Properties of the transports (SpecIO, FairSpecIO)
\* ------------------------------------------------------------------------

\* the positions of a thread inside the with-block of
\* send_packet_and_read_response
InExchange == {"flush", "write", "poll"}

\* the ways send_packet_and_read_response ends by an exception
Exceptions ==
    {"PumpIOTimeOutError", "IndexError", "DTStatusDecodeError", "EOFError"}

\* the bytes are one whole frame: start, content without delimiters, stop
IsFrame(b) ==
    /\ Len(b) >= 3
    /\ b[1] = DTStart
    /\ b[Len(b)] = DTStop
    /\ \A i \in 2..(Len(b) - 1) : b[i] \notin {DTStart, DTStop}

\* a frame of valid text whose address character is not the master address
OtherAddressFrame(b) ==
    /\ IsFrame(b)
    /\ b[2] # AddressMaster
    /\ \A i \in 1..Len(b) : b[i] # "FF"

\* thread t goes on waiting and nothing is returned to it
KeepsWaiting(t) == pc'[t] = "poll" /\ ret'[t] = ret[t]

\* C3: with two threads exchanging on one SerialIO, one with bus address 1
\* and one with bus address 2, a response returned to a thread is the reply
\* to a request for the address that thread asked, never the reply the other
\* address sent.
C3_OwnResponseOnly ==
    ioType = "serial" =>
        \A t \in Threads :
            (/\ ret[t].kind = "response"
             /\ ret[t].via = "exchange"
             /\ \E u \in Threads \ {t} :
                   \/ call[u].op = "exchange" /\ call[u].target # ret[t].target
                   \/ /\ ret[u].kind \in Exceptions \cup {"response"}
                      /\ ret[u].target # ret[t].target)
            => ret[t].src = ret[t].target

\* C4: on one SerialIO two send_packet_and_read_response calls for the same
\* bus address are never inside the exchange at the same time: while one has
\* flushed, sent or is polling, the other has not got past the lock.
C4_SameAddressSerialized ==
    ioType = "serial" =>
        \A t1, t2 \in Threads :
            (/\ t1 # t2
             /\ call[t1].op = "exchange"
             /\ call[t2].op = "exchange"
             /\ call[t1].target = call[t2].target)
            => ~(pc[t1] \in InExchange /\ pc[t2] \in InExchange)

C4_Witness ==
    /\ ioType = "serial"
    /\ \E t1, t2 \in Threads :
          /\ t1 # t2
          /\ pc[t1] = "poll"
          /\ call[t1].elapsed > 0
          /\ pc[t2] = "lock"
          /\ call[t2].op = "exchange"
          /\ call[t1].target = call[t2].target

\* C5 as claimed: on one SerialIO, while a thread waits for the reply from
\* bus address A, a thread that wants to send a packet to another bus
\* address B can take the step that lets it send.
C5_DistinctAddressesNotBlocked ==
    ioType = "serial" =>
        \A t1, t2 \in Threads :
            (/\ t1 # t2
             /\ pc[t1] = "poll"
             /\ pc[t2] \in {"lock", "sp_lock"}
             /\ call[t1].target # call[t2].target)
            => ENABLED (Acquire(t2) \/ SendPacketAcquire(t2))

\* C5 as amended: on one SerialIO, while a thread is inside an exchange
\* (flushing, sending or waiting for the reply), every other thread, whatever
\* bus address it wants, is idle or waiting for the lock: none has sent or is
\* sending, so at most one exchange is in flight.
C5_ExchangeBlocksEverySend ==
    ioType = "serial" =>
        \A t1, t2 \in Threads :
            (t1 # t2 /\ pc[t1] \in InExchange)
            => pc[t2] \in {"idle", "lock", "sp_lock"}

C5_Witness ==
    /\ ioType = "serial"
    /\ \E t1, t2 \in Threads :
          /\ t1 # t2
          /\ pc[t1] = "poll"
          /\ call[t1].elapsed > 0
          /\ pc[t2] = "sp_lock"
          /\ call[t1].target # call[t2].target

\* C6 as claimed: a frame for bus address B that a caller waiting for
\* address A reads from the serial line is kept: after the read it is still
\* held by the transport, or it has gone to a caller for B.
C6_OtherAddressFrameKept ==
    [][\A t \in Threads :
          (/\ SerialPollLine(t)
           /\ IsFrame(Head(inbuf).bytes)
           /\ Head(inbuf).bytes[2] \in PumpAddrs
           /\ Head(inbuf).bytes[2] # call[t].target)
          => \/ \E i \in 1..Len(inbuf') : inbuf'[i] = Head(inbuf)
             \/ \E u \in Threads :
                   /\ ret'[u].kind = "response"
                   /\ ret'[u].target = Head(inbuf).bytes[2]
                   /\ ret'[u].address = Head(inbuf).bytes[2]]_vars

\* C6 as amended: a frame for bus address B that a caller waiting for
\* address A reads from the serial line is discarded by that read: it is
\* taken off the line, it is returned to no caller, the reader goes on
\* waiting, and no frame other than a pump's reply is ever returned.
C6_OtherAddressFrameDiscarded ==
    [][\A t \in Threads :
          /\ (/\ SerialPollLine(t)
              /\ IsFrame(Head(inbuf).bytes)
              /\ Head(inbuf).bytes[2] \in PumpAddrs
              /\ Head(inbuf).bytes[2] # call[t].target)
             => /\ inbuf' = Tail(inbuf)
                /\ ret' = ret
                /\ pc' = pc
          /\ (ioType = "serial" /\ ret'[t].kind = "response")
             => ret'[t].src \in PumpAddrs]_vars

C6_Witness ==
    /\ ioType = "serial"
    /\ \E t \in Threads :
          /\ pc[t] = "poll"
          /\ call[t].target = "1"
          /\ call[t].skipped = "2"
          /\ inbuf = <<>>

\* C7: every send_packet_and_read_response call, on SerialIO and on SocketIO,
\* ends: a thread that has made a call is eventually back from it.
C7_EveryCallEnds ==
    \A t \in Threads : (pc[t] # "idle") ~> (pc[t] = "idle")

C9_NoStaleResponse ==
    \A t \in Threads : ret[t].kind = "response" => ~ret[t].stale

\* C9 as amended: a frame of which any part had been received when the flush
\* of an exchange completed is never returned as the response of that
\* exchange (input that arrives after the flush and before the send is kept
\* and can be returned).
C9_NoFlushedResponse ==
    \A t \in Threads : ret[t].kind = "response" => ~ret[t].old

C9_Witness ==
    \E t \in Threads :
        /\ ret[t].kind = "response"
        /\ ret[t].dropped
        /\ ~ret[t].stale

\* C10: every status send_packet_and_read_response returns, on SerialIO and
\* on SocketIO, has the master address; reading a frame whose address is
\* another one, or no Address value, returns nothing and leaves the caller
\* polling.
C10_OnlyMasterReturned ==
    [][\A t \in Threads :
          /\ ret'[t].kind = "response" => ret'[t].address = AddressMaster
          /\ (SerialPollLine(t) /\ OtherAddressFrame(Head(inbuf).bytes))
             => KeepsWaiting(t)
          /\ (SocketPollData(t) /\ OtherAddressFrame(Chars(sbuf \o sockq)))
             => KeepsWaiting(t)]_vars

C10_Witness ==
    \E t \in Threads :
        /\ ret[t].kind = "response"
        /\ ret[t].address = AddressMaster
        /\ ret[t].skipped \in {"2", "invalid"}

\* C38: when an exchange with pump A has timed out and an exchange with
\* another pump B then returns a response that arrived after B's packet was
\* sent, the response is not A's reply to the exchange that timed out.
C38_LateReplyNotReturned ==
    \A t, u \in Threads :
        (/\ ret[u].kind = "PumpIOTimeOutError"
         /\ ret[t].kind = "response"
         /\ ret[t].target # ret[u].target
         /\ ~ret[t].stale)
        => ~(ret[t].src = ret[u].target /\ ret[t].via = "exchange")

\* the positions of a call that has entered the with-block of send_packet or
\* of send_packet_and_read_response and has not left it
OnTransport == InExchange \cup {"sp_write"}

C11_Body(b) ==
    LET t == Rstrip(b, {"ETX", DTStop, "LF"})
    IN IF t # <<>> /\ t[1] = DTStart THEN Tail(t) ELSE t

\* bytes that are no valid text, bytes without the start delimiter, bytes
\* too short to hold an address character and a status character
C11_Malformed(b) ==
    \/ \E i \in 1..Len(b) : b[i] = "FF"
    \/ b = <<>>
    \/ b[1] # DTStart
    \/ Len(C11_Body(b)) < 2

\* C11: decoding bytes that are not valid text, that lack the start
\* delimiter or that are too short for an address and a status character
\* fails with DTStatusDecodeError: no other exception is raised and no field
\* of the status is filled.
C11_MalformedFrameRaises ==
    (dtpc # "bytes" /\ C11_Malformed(frame)) =>
        /\ decoded.err = "DTStatusDecodeError"
        /\ decoded.address = None
        /\ decoded.status = None

\* the 9 pairs of status characters of the pump manual: the character of the
\* idle pump, the character of the busy pump, the status kind
C13_Pairs ==
    {<<Grave, "@", "Ok">>,
     <<"a", "A", "InitFailure">>,
     <<"b", "B", "InvalidCommand">>,
     <<"c", "C", "InvalidOperand">>,
     <<"f", "F", "EEPROMFailure">>,
     <<"g", "G", "NotInitialized">>,
     <<"i", "I", "PlungerOverload">>,
     <<"j", "J", "ValveOverload">>,
     <<"k", "K", "PlungerStuck">>}

C13_Chars == {p[1] : p \in C13_Pairs} \cup {p[2] : p \in C13_Pairs}

\* C13: the 9 pairs hold 18 different status characters; the first character
\* of a pair decodes to (not busy, the pair's kind) and the second to (busy,
\* the pair's kind); for a status character that is in no pair is_idle
\* raises ValueError and returns nothing.
C13_StatusDecode ==
    /\ Cardinality(C13_Chars) = 18
    /\ dtpc = "checked" =>
          /\ \A p \in C13_Pairs :
                /\ decoded.status = p[1] =>
                      pstatus = [code |-> p[3], busy |-> FALSE]
                /\ decoded.status = p[2] =>
                      pstatus = [code |-> p[3], busy |-> TRUE]
          /\ decoded.status \notin C13_Chars =>
                idle = [kind |-> "raise", exc |-> "ValueError"]

C13_Witness ==
    /\ dtpc = "checked"
    /\ frame = <<DTStart, AddressMaster, "K", DTStop>>
    /\ pstatus = [code |-> "PlungerStuck", busy |-> TRUE]

\* ------------------------------------------------------------------------
\* Properties of the volume operations (SpecPump)
\* ------------------------------------------------------------------------

\* the places of the running call's packets whose command is one of cmds
SentAt(cmds) == {i \in DOMAIN sent : sent[i].cmd \in cmds}

\* the running call has sent nothing that changes the pump
NothingCommanded == SentAt(SettingCommands \cup MoveCommands) = {}

\* the running call has sent one move packet, of command cmd and operand
\* steps, and every velocity and valve packet before it
OneMoveLast(cmd, steps) ==
    /\ SentAt(MoveCommands) = SentAt({cmd})
    /\ Cardinality(SentAt({cmd})) = 1
    /\ \A i \in SentAt({cmd}) :
          /\ sent[i].steps = steps
          /\ \A j \in SentAt(SettingCommands) : j < i

\* C14: a pump(v) whose volume_to_step(v) is more than the remaining steps
\* (number_of_steps less the plunger position it read) ends at once with
\* False, having sent no set-velocity, no select-valve and no pickup packet.
C14_InfeasiblePumpRefused ==
    (/\ pop.name = "pump"
     /\ ppc # "check"
     /\ volume_to_step(pop.volume_in_ml) > NumberOfSteps - seen) =>
        /\ ppc = "done"
        /\ result = "False"
        /\ NothingCommanded

C14_Witness ==
    /\ pop.name = "pump"
    /\ ppc = "done"
    /\ pop.volume_in_ml = 1000
    /\ pop.valve = "Output"
    /\ pop.speed = CustomTopVelocity
    /\ seen = 2
    /\ result = "False"
    /\ dvalve = "Input"
    /\ dvelocity = DefaultTopVelocity

\* C15: a pump(v) whose volume_to_step(v) is at most the remaining steps
\* returns True, having sent exactly one pickup packet, with operand
\* volume_to_step(v), after its velocity and valve packets; 5.0 mL at 1000
\* steps per mL are 5000 steps.
C15_FeasiblePumpSendsOnePickup ==
    /\ VolumeToStep(5 * UnitsPerMl, 1000) = 5000
    /\ (/\ pop.name = "pump"
        /\ ppc = "done"
        /\ volume_to_step(pop.volume_in_ml) <= NumberOfSteps - seen) =>
          /\ result = "True"
          /\ OneMoveLast("MovePickup", Round(pop.volume_in_ml * steps_per_ml,
                                             UnitsPerMl))

C15_Witness ==
    /\ pop.name = "pump"
    /\ ppc = "done"
    /\ xfer.stage = "off"
    /\ pop.volume_in_ml = 500
    /\ pop.valve = "Output"
    /\ pop.speed = CustomTopVelocity
    /\ seen = 1
    /\ result = "True"
    /\ Cardinality(SentAt(SettingCommands)) = 2
    /\ sent[Len(sent)].cmd = "MovePickup"
    /\ sent[Len(sent)].steps = 2

\* C16: a deliver(v) whose volume_to_step(v) is more than the plunger
\* position it read returns False and sends no velocity, valve or deliver
\* packet; deliver(0) returns True and sends none either; any other
\* deliver(v) returns True, having sent exactly one deliver packet, with
\* operand volume_to_step(v).
C16_Deliver ==
    (pop.name = "deliver" /\ ppc = "done") =>
        IF volume_to_step(pop.volume_in_ml) > seen
        THEN result = "False" /\ NothingCommanded
        ELSE IF pop.volume_in_ml = 0
        THEN result = "True" /\ NothingCommanded
        ELSE /\ result = "True"
             /\ OneMoveLast("MoveDeliver", volume_to_step(pop.volume_in_ml))

C16_Witness ==
    /\ pop.name = "deliver"
    /\ ppc = "done"
    /\ pop.volume_in_ml = 0
    /\ pop.valve = "Output"
    /\ pop.speed = CustomTopVelocity
    /\ seen = 3
    /\ result = "True"
    /\ dvalve = "Input"
    /\ dvelocity = DefaultTopVelocity

RECURSIVE SumSeq(_)
SumSeq(q) == IF q = <<>> THEN 0 ELSE Head(q) + SumSeq(Tail(q))

\* every round of a transfer that was called on an idle pump is a pump and
\* a deliver of min(outstanding volume, remaining volume), both with wait and
\* both returning True when the pump is idle again, and each move packet
\* reaches an idle pump
C17_Rounds ==
    /\ (xfer.at_rest /\ xfer.stage = "pump" /\ ppc = "check") =>
          xfer.volume_transferred =
              Min(xfer.volume_in_ml,
                  total_volume - (plunger * UnitsPerMl) \div steps_per_ml)
    /\ (xfer.at_rest /\ xfer.stage \in {"pump", "deliver"}) =>
          /\ pop.name = xfer.stage
          /\ pop.volume_in_ml = xfer.volume_transferred
          /\ pop.wait
          /\ \A i \in SentAt(MoveCommands) : sent[i].at_idle
          /\ ppc = "done" => result = "True" /\ plunger = target

\* transfer(2.5 mL) on a pump of 1 mL whose plunger is at 0
C17_Example ==
    (/\ xfer.stage = "done"
     /\ total_volume = UnitsPerMl
     /\ xfer.at_rest
     /\ xfer.start = 0
     /\ 2 * xfer.requested = 5 * UnitsPerMl) =>
        /\ xfer.strokes = <<UnitsPerMl, UnitsPerMl, UnitsPerMl \div 2>>
        /\ xfer.volume_in_ml = 0

C18_OutstandingDecreases ==
    [][(xfer.stage = "deliver" /\ xfer'.stage = "loop") =>
          xfer'.volume_in_ml < xfer.volume_in_ml]_vars

\* C19: every move packet that a pump, deliver or go_to_volume call sends
\* asks for a plunger position in 0..number_of_steps, also when the call is
\* made while the move of an earlier call without wait is in progress.
C19_CommandedPositionInRange ==
    xfer.stage = "off" =>
        \A i \in SentAt(MoveCommands) :
            Commanded(sent[i]) \in 0..NumberOfSteps

\* C20: set_valve_position returns True; when the pump reports the requested
\* position it has sent nothing but that one query; when the pump reports
\* another position and secure is False it has sent the query and one valve
\* packet, and neither waited for the pump to be idle nor read the position
\* again.
C20_SetValvePosition ==
    (pop.name = "set_valve_position" /\ ppc = "done") =>
        /\ result = "True"
        /\ sent[1].cmd = "ReportValvePosition"
        /\ sent[1].arg = pop.valve => Len(sent) = 1
        /\ (sent[1].arg # pop.valve /\ ~pop.secure) =>
              /\ Len(sent) = 2
              /\ sent[2].cmd = "SelectValve"
              /\ sent[2].arg = pop.valve

C20_Witness ==
    /\ pop.name = "set_valve_position"
    /\ ppc = "done"
    /\ ~pop.secure
    /\ pop.valve = "Output"
    /\ sent[1].arg = "Input"
    /\ Len(sent) = 2
    /\ dvalve = "Output"
    /\ plunger # target

\* C32: a pump, deliver or go_to_volume that has sent its move packet and
\* returned True has, with wait=True, waited for the pump after the move
\* packet and found it idle, and has, with wait=False, sent nothing after the
\* move packet; a wait_until_idle that is going on can return if and only if
\* the pump is idle, so it returns once the pump has come to rest.
C32_WaitAndNoWait ==
    /\ (/\ ppc = "done"
        /\ result = "True"
        /\ pop.name \in {"pump", "deliver", "go_to_volume"}
        /\ SentAt(MoveCommands) # {})
       => IF pop.wait
          THEN /\ sent[Len(sent)].cmd = "wait_until_idle"
               /\ sent[Len(sent)].at_idle
               /\ sent[Len(sent) - 1].cmd \in MoveCommands
               /\ plunger = target
          ELSE sent[Len(sent)].cmd \in MoveCommands
    /\ ppc = "wait" =>
           /\ pop.wait
           /\ sent[Len(sent)].cmd \in MoveCommands
           /\ (ENABLED WaitUntilIdle) <=> (plunger = target)

\* C32 witness: a pump with wait=True has returned after the plunger has gone
\* up from where the pickup packet met it
C32_Witness ==
    /\ ppc = "done"
    /\ result = "True"
    /\ pop.name = "pump"
    /\ pop.wait
    /\ Len(sent) >= 2
    /\ sent[Len(sent)].cmd = "wait_until_idle"
    /\ sent[Len(sent) - 1].cmd = "MovePickup"
    /\ plunger > sent[Len(sent) - 1].at

\* ------------------------------------------------------------------------
\* Properties of the settings and of initialize (SpecSetup)
\* ------------------------------------------------------------------------

\* the places of slog that hold one of the commands cmds
LogAt(cmds) == {i \in 1..Len(slog) : slog[i][1] \in cmds}

\* the exchange at place i of slog has used up its attempts
LogFailed(i) == slog[i][4] = "failed"

\* the status poll at place i of slog was answered with an error
LogError(i) == slog[i][1] = "ReportStatus" /\ slog[i][4] = "ok"

\* the error a failure at place i of slog raises
LogRaises(i) ==
    IF LogFailed(i) THEN "MaxRetriesExceededError" ELSE "PumpHardwareError"

\* C21: in a set_valve_position with secure=True every valve command is
\* followed by wait_until_idle and, in the next iteration, by a read of the
\* valve position that finds the pump idle; at most max_repeat valve
\* commands are sent; and a call in which no read has answered the requested
\* position, the pump reporting no error, ends with MaxRetriesExceededError.
C21_SecureSetValvePosition ==
    (sname = "set_valve_position" /\ ssecure) =>
        /\ \A i \in LogAt({"SelectValve"}) :
              ~LogFailed(i) =>
                  /\ i < Len(slog) =>
                        slog[i + 1][1] \in {"wait_until_idle", "ReportStatus"}
                  /\ i + 1 < Len(slog) =>
                        /\ slog[i + 1] = <<"wait_until_idle", None, TRUE, "ok">>
                        /\ slog[i + 2][1] = "ReportValvePosition"
                        /\ slog[i + 2][3]
                  /\ spc = "done" => i < Len(slog)
        /\ Cardinality(LogAt({"SelectValve"})) <= smax
        /\ ( /\ spc = "done"
             /\ sarg \in ValvePositions
             /\ \A i \in LogAt({"ReportValvePosition"}) :
                   ValvePosition_value(sarg) # slog[i][2]
             /\ \A i \in 1..Len(slog) : ~LogError(i) )
           => sresult = "MaxRetriesExceededError"

\* ... reached: two valve commands that the valve did not follow, each
\* waited for and read back, and no third one
C21_Witness ==
    /\ sname = "set_valve_position"
    /\ ssecure
    /\ spc = "done"
    /\ smax = 2
    /\ sarg = "Output"
    /\ Len(slog) = 6
    /\ \A i \in 1..6 : ~LogFailed(i) /\ ~LogError(i)
    /\ Cardinality(LogAt({"SelectValve"})) = 2
    /\ dev_valve = "i"
    /\ sresult = "MaxRetriesExceededError"

\* C22: the ten valve positions are forged into pairwise distinct command
\* bytes, and a set_valve_position with secure=True and the default
\* max_repeat, on a pump and a line that have shown no failure, returns True
\* with the valve at the requested position.
C22_DistinctValveCommands ==
    ( /\ sname = "set_valve_position"
      /\ spc = "done"
      /\ ssecure
      /\ smax = MAX_REPEAT_OPERATION
      /\ sarg \in ValvePositions
      /\ faults = MaxFaults )
    => /\ \A p, q \in ValvePositions :
             p # q => ValveCommand(p) # ValveCommand(q)
       /\ sresult = "True"
       /\ dev_valve = ValvePosition_value(sarg)

\* C23: a set_top_velocity or a set_valve_position that has raised
\* ValueError has handed no packet to the pump.
C23_ValidationBeforeIO ==
    ( /\ sname \in {"set_top_velocity", "set_valve_position"}
      /\ spc = "done"
      /\ sresult = "ValueError" )
    => slog = <<>>

\* C24: the held default top velocity lies between 1 and the ceiling of the
\* held microstep mode.
C24_HeldTopVelocityInRange ==
    /\ default_top_velocity >= 1
    /\ default_top_velocity <= BaseTopVelocity * N_STEP_MODE(micro_step_mode)

\* the packets of the steps of initialize
InitStepCommands ==
    {"InitValveOnly", "SelectValve", "InitNoValve", "ReportIsInitialized"}

\* the steps of an initialize: a valve-only init opens each attempt, the
\* first one or after a verification that failed; a no-valve init follows
\* the set_valve_position of its attempt and carries the operand the total
\* volume asks for; the initialized query follows the no-valve init and its
\* wait; every step after the first starts on an idle pump; at most
\* max_repeat attempts are made; True is returned on the first verified
\* attempt, and an initialize without a verified attempt, the pump reporting
\* no error, ends with MaxRetriesExceededError
C25_Steps ==
        /\ \A i \in LogAt({"InitValveOnly"}) :
              i = 1 \/ slog[i - 1] = <<"ReportIsInitialized", "0", TRUE, "ok">>
        /\ \A i \in LogAt({"SelectValve"}) :
              /\ slog[i][2] = (IF sarg = "Input" THEN "I" ELSE "O")
              /\ slog[i - 1][1] = "ReportValvePosition"
        /\ \A i \in LogAt({"InitNoValve"}) :
              /\ slog[i][2] = (IF cfg_total_volume < UnitsPerMl
                               THEN "1" ELSE "0")
              /\ \E j \in LogAt({"InitValveOnly"}) :
                    /\ j < i
                    /\ \E k \in LogAt({"ReportValvePosition"}) : j < k /\ k < i
                    /\ \A k \in LogAt({"InitValveOnly", "InitNoValve",
                                       "ReportIsInitialized"}) :
                          ~(j < k /\ k < i)
        /\ \A i \in LogAt({"ReportIsInitialized"}) :
              /\ i > 2
              /\ slog[i - 2][1] = "InitNoValve"
              /\ slog[i - 1][1] = "wait_until_idle"
        /\ \A i \in LogAt(InitStepCommands) : i > 1 => slog[i][3]
        /\ Cardinality(LogAt({"InitValveOnly"})) <= imax
        /\ \A i \in LogAt({"ReportIsInitialized"}) :
              slog[i][2] = "1" => i = Len(slog) /\ spc = "done"
        /\ spc = "done" =>
              /\ sresult = "True" <=>
                    /\ slog # <<>>
                    /\ slog[Len(slog)] = <<"ReportIsInitialized", "1", TRUE,
                                           "ok">>
              /\ ( /\ sresult # "True"
                   /\ \A i \in 1..Len(slog) : ~LogError(i) )
                 => sresult = "MaxRetriesExceededError"

\* C25: every initialize takes its steps in that way.
C25_InitializeSteps == sname = "initialize" => C25_Steps

\* C25, amended: every initialize with secure=True takes its steps in that
\* way.
C25_SecureInitializeSteps == (sname = "initialize" /\ ssecure) => C25_Steps

\* ... reached: a syringe below 1 mL, a first attempt in which the valve is
\* turned and which is not verified, and a second one which is
C25_Witness ==
    /\ sname = "initialize"
    /\ ssecure
    /\ spc = "done"
    /\ sresult = "True"
    /\ cfg_total_volume < UnitsPerMl
    /\ iattempt = 1
    /\ Cardinality(LogAt({"InitNoValve"})) = 2
    /\ LogAt({"SelectValve"}) # {}

\* C26: in an initialize, an exchange that has used up its attempts or a
\* status poll answered with an error is the last packet of the call, and
\* the call has ended with that error.
C26_InitializeStopsAtFailure ==
    sname = "initialize" =>
        \A i \in 1..Len(slog) :
            (LogFailed(i) \/ LogError(i)) =>
                /\ i = Len(slog)
                /\ spc = "done"
                /\ sresult = LogRaises(i)

\* ... reached: the pump reports an error while the valve-only init is
\* waited for, and initialize ends there in its first attempt
C26_Witness ==
    /\ sname = "initialize"
    /\ spc = "done"
    /\ imax = 2
    /\ Len(slog) = 2
    /\ slog[1][1] = "InitValveOnly"
    /\ LogError(2)
    /\ sresult = "PumpHardwareError"

\* C39: a set_microstep_mode that fails (its write ends with
\* MaxRetriesExceededError) leaves the held micro_step_mode as it was before
\* the call.
C39_FailureKeepsHeldMode ==
    [][(SetMicrostepMode /\ sresult' = "MaxRetriesExceededError")
          => micro_step_mode' = micro_step_mode]_vars

\* C40: when a set_valve_position or a set_top_velocity with secure=True and
\* max_repeat >= 1 has raised MaxRetriesExceededError at the end of its loop
\* (no exchange having failed), the pump is not in the requested state: its
\* valve is not at the requested position, its top velocity is not the
\* requested one.
C40_RaisedMeansNotSet ==
    ( /\ spc = "done"
      /\ sname \in {"set_valve_position", "set_top_velocity"}
      /\ ssecure
      /\ smax >= 1
      /\ sresult = "MaxRetriesExceededError"
      /\ \A i \in 1..Len(slog) : ~LogFailed(i) )
    => IF sname = "set_valve_position"
       THEN ValvePosition_try_decode(dev_valve) # sarg
       ELSE dev_velocity # svel

\* ------------------------------------------------------------------------
\* Properties of MultiPumpController (SpecMulti)
\* ------------------------------------------------------------------------

\* the entries of the log: whose pump, which operation, with which volume,
\* whether the pump was idle, and in which round
EntryPump(i) == mlog[i][1]
EntryOperation(i) == mlog[i][2]
EntryVolume(i) == mlog[i][3]
EntryIdle(i) == mlog[i][4]
EntryPlunger(i) == mlog[i][5]
EntryRound(i) == mlog[i][6]

\* the phase of smart_initialize an operation belongs to, 0 for the others
PhaseOf(operation) ==
    CASE operation = "initialize_valve_only" -> 1
      [] operation = "set_valve_position" -> 2
      [] operation = "initialize_no_valve" -> 3
      [] operation = "init_all_pump_parameters" -> 4
      [] OTHER -> 0

\* pump q has been waited for, and was idle then, between entries i and j
SeenIdleBetween(q, i, j) ==
    \E w \in (i + 1)..(j - 1) :
        /\ EntryPump(w) = q
        /\ EntryOperation(w) = "wait_until_idle"
        /\ EntryIdle(w)

\* the waits for pump q that found it idle, before entry j
IdleWaitsBefore(q, j) ==
    {w \in 1..(j - 1) : SeenIdleBetween(q, w - 1, w + 1)}

\* C27: in smart_initialize, between a command of one phase (valve-only
\* init, set valve position, no-valve init, parameter initialisation) and a
\* command of a later phase every pump of the controller has been waited for
\* and found idle, and a command of phase k comes after k - 1 such waits for
\* every pump.
C27_PhaseBarrier ==
    mname = "smart_initialize" =>
        \A j \in DOMAIN mlog :
            PhaseOf(EntryOperation(j)) > 0 =>
                \A q \in Pumps :
                    /\ Cardinality(IdleWaitsBefore(q, j))
                           >= PhaseOf(EntryOperation(j)) - 1
                    /\ \A i \in 1..(j - 1) :
                           (/\ PhaseOf(EntryOperation(i)) > 0
                            /\ PhaseOf(EntryOperation(i))
                                   < PhaseOf(EntryOperation(j)))
                           => SeenIdleBetween(q, i, j)

\* the operations of the four phases that pump p has received, in order
RECURSIVE PhaseOpsOf(_, _)
PhaseOpsOf(p, log) ==
    IF log = <<>> THEN <<>>
    ELSE IF Head(log)[1] = p /\ PhaseOf(Head(log)[2]) > 0
    THEN <<Head(log)[2]>> \o PhaseOpsOf(p, Tail(log))
    ELSE PhaseOpsOf(p, Tail(log))

\* C27 witness: smart_initialize without secure has gone through its four
\* phases with two pumps that were both uninitialized, one of which had to
\* turn its valve
C27_Witness ==
    /\ mname = "smart_initialize"
    /\ mpc = "done"
    /\ ~msecure
    /\ \A p \in Pumps : ~mstart_init[p] /\ Len(PhaseOpsOf(p, mlog)) = 4
    /\ m_valve # [p \in Pumps |-> "o"]
    /\ \E p \in Pumps : mstart_plunger[p] > 0 /\ m_plunger[p] = 0

\* C28: in smart_initialize a valve-only init, a set-valve-position and a
\* no-valve init go to a pump right after it has answered that it is not
\* initialized, and only to pumps that were uninitialized at the call; the
\* plunger of a pump that was initialized is left where it was; when
\* smart_initialize returns, a pump that was uninitialized has received
\* valve-only init, set-valve-position, no-valve init and the parameter
\* initialisation, in this order, and a pump that was initialized the
\* parameter initialisation only.
C28_OnlyUninitialized ==
    mname = "smart_initialize" =>
        /\ \A j \in DOMAIN mlog :
               PhaseOf(EntryOperation(j)) \in 1..3 =>
                   /\ ~mstart_init[EntryPump(j)]
                   /\ j > 1
                   /\ EntryPump(j - 1) = EntryPump(j)
                   /\ EntryOperation(j - 1) = "is_initialized"
                   /\ EntryVolume(j - 1) = 0
        /\ \A p \in Pumps :
               mstart_init[p] =>
                   m_target[p] = mstart_plunger[p] /\ m_initialized[p]
        /\ mpc = "done" =>
               \A p \in Pumps :
                   PhaseOpsOf(p, mlog) =
                       IF mstart_init[p]
                       THEN <<"init_all_pump_parameters">>
                       ELSE <<"initialize_valve_only", "set_valve_position",
                              "initialize_no_valve",
                              "init_all_pump_parameters">>

\* C28 witness: smart_initialize has returned, pump A was uninitialized and
\* is initialized now, pump B was initialized with its plunger up
C28_Witness ==
    /\ mname = "smart_initialize"
    /\ mpc = "done"
    /\ ~mstart_init["A"]
    /\ m_initialized["A"]
    /\ mstart_init["B"]
    /\ mstart_plunger["B"] > 0
    /\ m_plunger["B"] = mstart_plunger["B"]
    /\ PhaseOpsOf("B", mlog) = <<"init_all_pump_parameters">>

\* the volumes pump q has been asked to pump, in the entries of log
RECURSIVE StrokesOf(_, _)
StrokesOf(q, log) ==
    IF log = <<>> THEN <<>>
    ELSE IF Head(log)[1] = q /\ Head(log)[2] = "pump"
    THEN <<Head(log)[3]>> \o StrokesOf(q, Tail(log))
    ELSE StrokesOf(q, Tail(log))

\* ... in the rounds up to round r
StrokesUpTo(q, r) ==
    LET Early(e) == e[6] <= r
    IN StrokesOf(q, SelectSeq(mlog, Early))

\* the pumps that have been asked to pump in round r
PumpsOfRound(r) ==
    {EntryPump(i) : i \in {k \in DOMAIN mlog :
                              /\ EntryOperation(k) = "pump"
                              /\ EntryRound(k) = r}}

SeqRange(q) == {q[i] : i \in DOMAIN q}

\* C29: in parallel_transfer (a) a pump is asked to pump the smaller of what
\* is outstanding of its volume and of what its syringe can still take; (b)
\* when a deliver is sent, every pump of the round has been asked to pump
\* and has been waited for and found idle since; (c) the pumps of a round
\* after the first are the pumps whose requested volume exceeds what they
\* have been asked to pump in the earlier rounds; (d) between a deliver to a
\* pump and the next pump command to it, it has been waited for and found
\* idle.
C29_ParallelTransferRounds ==
    mname = "parallel_transfer" =>
        /\ \A i \in DOMAIN mlog :
               EntryOperation(i) = "pump" =>
                   EntryVolume(i) =
                       Min(mrequested[EntryPump(i)]
                               - SumSeq(StrokesOf(EntryPump(i),
                                                  SubSeq(mlog, 1, i - 1))),
                           PumpTotalVolume(EntryPump(i))
                               - PumpStepToVolume(EntryPump(i),
                                                  EntryPlunger(i)))
        /\ \A j \in DOMAIN mlog :
               EntryOperation(j) = "deliver" =>
                   /\ EntryRound(j) = mrounds => SeqRange(mkeys) =
                                                     PumpsOfRound(mrounds)
                   /\ \A q \in PumpsOfRound(EntryRound(j)) :
                          \E i \in 1..(j - 1) :
                              /\ EntryPump(i) = q
                              /\ EntryOperation(i) = "pump"
                              /\ EntryRound(i) = EntryRound(j)
                              /\ SeenIdleBetween(q, i, j)
        /\ mrounds >= 2 =>
               SeqRange(mkeys) =
                   {q \in Pumps :
                       mrequested[q]
                           - SumSeq(StrokesUpTo(q, mrounds - 1)) > 0}
        /\ \A j \in DOMAIN mlog :
               EntryOperation(j) = "pump" =>
                   \A i \in 1..(j - 1) :
                       (/\ EntryPump(i) = EntryPump(j)
                        /\ EntryOperation(i) \in {"deliver", "deliver_move"})
                       => SeenIdleBetween(EntryPump(j), i, j)

\* C29 witness: a parallel_transfer of two pumps has returned after two
\* rounds, the second of which was for pump A alone
C29_Witness ==
    /\ mname = "parallel_transfer"
    /\ mpc = "done"
    /\ mrounds = 2
    /\ PumpsOfRound(1) = Pumps
    /\ PumpsOfRound(2) = {"A"}
    /\ \E i \in DOMAIN mlog :
           EntryOperation(i) = "deliver_move" /\ EntryRound(i) = 2

CeilDiv(a, b) == (a + b - 1) \div b

\* the largest ceil(requested / capacity) over the pumps of the call
MostRounds ==
    LET n(q) == CeilDiv(mrequested[q], PumpTotalVolume(q))
    IN CHOOSE r \in {n(q) : q \in Pumps} : \A q \in Pumps : n(q) <= r

\* the strokes of pump q as they are asked, in steps
StrokeSteps(q) ==
    LET strokes == StrokesOf(q, mlog)
    IN [k \in DOMAIN strokes |-> VolumeToStep(strokes[k], PumpStepsPerMl(q))]

\* what C30 says of a parallel_transfer that has returned: the example,
\* and for every pump of the call that its strokes sum to its requested
\* volume, that its syringe has taken each of them, and the number of rounds
C30_Body ==
    /\ (/\ mrequested = [p \in Pumps |-> 2000]
        /\ mstart_plunger = NoVolumes)
       => /\ StrokesOf("A", mlog) = <<1000, 1000>>
          /\ StrokesOf("B", mlog) = <<2000>>
          /\ PumpsOfRound(1) = {"A", "B"}
          /\ PumpsOfRound(2) = {"A"}
    /\ \A q \in Pumps :
           /\ SumSeq(StrokesOf(q, mlog)) = mrequested[q]
           /\ m_moved[q] = StrokeSteps(q)
    /\ mrounds = MostRounds

LastDeliver(q) ==
    LET delivers == {i \in DOMAIN mlog :
                    /\ EntryPump(i) = q
                    /\ EntryOperation(i) \in {"deliver", "deliver_move"}}
    IN IF delivers = {} THEN 0
       ELSE CHOOSE i \in delivers : \A k \in delivers : k <= i

\* C31: when a parallel_transfer called with wait=True has returned, every
\* pump it named has been waited for and found idle after its last deliver,
\* and is idle.
C31_WaitCoversFinalDeliver ==
    (mname = "parallel_transfer" /\ mpc = "done" /\ mwait_call) =>
        \A q \in Pumps :
            mrequested[q] > 0 =>
                /\ SeenIdleBetween(q, LastDeliver(q), Len(mlog) + 1)
                /\ ~m_busy[q]

\* ------------------------------------------------------------------------
\* Properties of the conversions (SpecConv)
\* ------------------------------------------------------------------------

\* C34: for every volume v of 0 to total_volume, step_to_volume of
\* volume_to_step(v) differs from v by at most 1 / steps_per_ml, where
\* steps_per_ml is number_of_steps / total_volume rounded down (both sides
\* multiplied by the denominators: the volumes are in units).
C34_RoundTripWithinOneStep ==
    cvpc = "back" =>
        LET spm == StepsPerMl(cv_number_of_steps, cv_total_volume)
        IN /\ spm = (cv_number_of_steps * UnitsPerMl) \div cv_total_volume
           /\ Abs(cv_back[1] - cv_volume * cv_back[2]) * spm
                 <= UnitsPerMl * cv_back[2]

C34_Witness ==
    /\ cvpc = "back"
    /\ cv_number_of_steps = 3000
    /\ cv_total_volume = 700
    /\ cv_volume = 700
    /\ cv_step = 3000
    /\ cv_back[1] > cv_volume * cv_back[2]

\* ------------------------------------------------------------------------
\* Properties of the forged packets (SpecForge)
\* ------------------------------------------------------------------------

\* C35: the bytes of a packet forge_packet built are the start delimiter, the
\* address, the bytes (opcode, then operand) of each command it was given in
\* the order given, one R if execute was true and nothing if it was false,
\* and the stop delimiter; forge_eeprom_config_packet and
\* forge_eeprom_lowlevel_config_packet build their packets without the R,
\* every other forge function builds a packet whose last command is R.
C35_ForgedPacketBytes ==
    fgpc = "encoded" =>
        LET body == CommandBytes(fg_given)
            n == Len(fg_bytes)
        IN /\ n >= Len(body) + 3
           /\ fg_bytes[1] = DTStart
           /\ fg_bytes[2] = fg_address
           /\ SubSeq(fg_bytes, 3, Len(body) + 2) = body
           /\ fg_bytes[n] = DTStop
           /\ IF fg_execute
              THEN n = Len(body) + 4 /\ fg_bytes[n - 1] = "R"
              ELSE n = Len(body) + 3
           /\ fg_name \in ForgeNoExecute => n = Len(body) + 3
           /\ fg_name \in ForgeNames \ ForgeNoExecute =>
                  n = Len(body) + 4 /\ fg_bytes[n - 1] = "R"

C35_Witness ==
    /\ fgpc = "encoded"
    /\ fg_name = "forge_eeprom_lowlevel_config_packet"
    /\ fg_bytes = <<DTStart, "2", "u", "2", "0", "_", "R", DTStop>>

\* ------------------------------------------------------------------------
\* Properties of the frame extraction (SpecFrame)
\* ------------------------------------------------------------------------

\* the first position of ch in bytes at or after from, 0 when there is none
PosOf(bytes, ch, from) ==
    IF \E i \in from..Len(bytes) : bytes[i] = ch
    THEN CHOOSE i \in from..Len(bytes) :
            bytes[i] = ch /\ \A j \in from..(i - 1) : bytes[j] # ch
    ELSE 0

\* the complete frames of a stream of bytes, in order: each from a start
\* delimiter to the first stop delimiter after it
RECURSIVE FramesOf(_)
FramesOf(bytes) ==
    LET i == PosOf(bytes, DTStart, 1)
        j == IF i = 0 THEN 0 ELSE PosOf(bytes, DTStop, i)
    IN IF j = 0 THEN <<>>
       ELSE <<SubSeq(bytes, i, j)>> \o FramesOf(SubSeq(bytes, j + 1, Len(bytes)))

\* C36: however the bytes of a stream are split into chunks, the frames
\* extracted so far followed by the complete frames of what is buffered and
\* what is still to arrive are the complete frames of the whole stream, in
\* order and each once; an extracted frame begins with the start delimiter
\* (the bytes before it are dropped) and ends with the first stop delimiter
\* after it; and when the whole stream has arrived and the extraction loop
\* has run dry, every complete frame of the stream has been extracted.
C36_FramesOnceInOrder ==
    fr_last # "quiet" =>
        /\ fr_out \o FramesOf(fr_buf \o fr_rest) = FramesOf(fr_all)
        /\ \A k \in 1..Len(fr_out) :
              /\ fr_out[k][1] = DTStart
              /\ PosOf(fr_out[k], DTStop, 1) = Len(fr_out[k])
        /\ (fr_rest = <<>> /\ fr_last = "none") => fr_out = FramesOf(fr_all)

C36_Witness ==
    /\ fr_all = <<"2", DTStart, "2", DTStop, DTStart, DTStop>>
    /\ fr_rest = <<>>
    /\ fr_buf = <<>>
    /\ fr_out = <<<<DTStart, "2", DTStop>>, <<DTStart, DTStop>>>>
    /\ fr_last = "raise"
    /\ fr_chunks = Len(fr_all)

\* ------------------------------------------------------------------------
\* Properties of get_valve_position (SpecGetValve)
\* ------------------------------------------------------------------------

\* C37: get_valve_position(max_repeat) makes at most max_repeat queries; when
\* it returns, it returns what the last reply decodes to, a known position,
\* and no reply before it decoded; when it raises ValueError it has made
\* max_repeat queries and none of the replies decoded; it raises nothing
\* else of its own (PumpHardwareError never, MaxRetriesExceededError only as
\* the failure of a query).
C37_FirstKnownPositionOrValueError ==
    gvpc # "none" =>
        LET n == Len(gv_replies)
            Unknown(k) == ValvePosition_try_decode(gv_replies[k]) = None
        IN /\ gv_queries <= gv_max_repeat
           /\ gv_kind = "return" =>
                 /\ n >= 1
                 /\ gv_result = ValvePosition_try_decode(gv_replies[n])
                 /\ gv_result \in ValvePositions
                 /\ \A k \in 1..(n - 1) : Unknown(k)
           /\ (gv_kind = "raise" /\ gv_result = "ValueError") =>
                 /\ gv_queries = gv_max_repeat
                 /\ n = gv_max_repeat
                 /\ \A k \in 1..n : Unknown(k)
           /\ gv_kind = "raise" =>
                 /\ gv_result \in QueryExceptions \cup {"ValueError"}
                 /\ gv_result \in QueryExceptions => n = gv_queries - 1

C37_Witness ==
    /\ gvpc = "done"
    /\ gv_max_repeat = MAX_REPEAT_OPERATION
    /\ gv_kind = "raise"
    /\ gv_result = "ValueError"
    /\ Len(gv_replies) = MAX_REPEAT_OPERATION
    /\ gv_replies[1] = "x"
    /\ gv_replies[2] = ""

====
